---------------------------- MODULE Spec2Model ----------------------------
(***************************************************************************)
(* Model of the persistent review queue of reviewbot: the review_jobs      *)
(* table (src/db/schema.ts), PersistentQueue (src/queue.ts) and its wiring *)
(* in startQueue / stopQueue / enqueueReview (src/review/pipeline.ts) and  *)
(* main (index).                                                           *)
(*                                                                         *)
(* One process runs the queue.  Every await of the code is a step          *)
(* boundary: a poll tick, the claim statement inside the database (the     *)
(* locking sub-select, then the update), the follow-up select, the         *)
(* completion / failure write that follows the handler and the .finally    *)
(* callback are separate steps, so timer ticks that overlap in time are    *)
(* represented.  The handler touches no state of the queue; its outcome is *)
(* drawn in the step that writes the result.                               *)
(* A database call that rejects has no effect on the table.                *)
(***************************************************************************)
EXTENDS Integers, Naturals, Sequences, FiniteSets, Bags, TLC

\* ---------------------------------------------------------------- bounds
MaxJobs == 2
MaxPolls == 2
MaxFaults == 1
NumTenants == 2
NumRevisions == 2
BacklogJobs == 4
MaxRetryAttempts == 7
MaxStatusRows == 10
MaxSubmits == 2

\* ------------------------------------------------------ program constants
DefaultMaxAttempts == 3
DefaultInitialDelayMs == 1000
DefaultMaxDelayMs == 10000
Concurrency == 3
maxPerInstallation == 1

Tenants == 1..NumTenants
Revisions == 1..NumRevisions
Null == 0
Stamp == 1
\* completed_at is kept relative to the current time: Recent is less than
\* the idempotency window (5 minutes) ago, Past is at least that long ago
Recent == 1
Past == 2
NoError == "null"
ErrorText == "error"

VARIABLES
  jobs,        \* review_jobs: sequence of rows, the index is the serial id
  locked,      \* ids of rows locked FOR UPDATE by a claim in progress
  storeUp,     \* the database is reachable
  pc,          \* process phase: "boot", "recovered", "up", "stalled", "down"
  running,     \* PersistentQueue.running
  runningPerInstallation, \* PersistentQueue.runningPerInstallation (0 = no entry)
  pollInterval,    \* PersistentQueue.pollInterval is set
  shuttingDown,    \* PersistentQueue.shuttingDown
  draining,    \* waitForCompletion is pending
  polls,       \* bag of poll() invocations in flight
  handlers,    \* bag of processJob() invocations in flight
  lastRecovered,   \* rows returned by the last recoverStaleJobs of this process
  recoveries,  \* recoverStaleJobs calls completed or failed since process start
  claimed,     \* per job: claims that returned it since it last became pending
  faults,      \* kills, outages and shutdown signals so far
  review,      \* processReview invocation followed step by step
  retry,       \* withRetry invocation followed step by step
  stats,       \* last result of getQueueStats
  submit,      \* webhook deliveries and their enqueueReview calls in flight
  asyncQueue,  \* an AsyncQueue object and the promises it handed out
  differ       \* a chunkDiffs call: its arguments and its result

store == <<jobs, locked, storeUp>>
memory == <<pc, running, runningPerInstallation, pollInterval, shuttingDown,
            draining, polls, handlers, lastRecovered, recoveries>>
others == <<submit, asyncQueue, differ>>
\* The invocations and objects below are followed in specifications of
\* their own; the steps of the queue leave them alone.
aside == <<review, retry, stats, submit, asyncQueue, differ>>
vars == <<jobs, locked, storeUp, pc, running, runningPerInstallation,
          pollInterval, shuttingDown, draining, polls, handlers,
          lastRecovered, recoveries, claimed, faults, review, retry, stats,
          submit, asyncQueue, differ>>

JobIds == 1..Len(jobs)

BagAdd(b, e) == b (+) SetToBag({e})
BagDel(b, e) == b (-) SetToBag({e})

\* ------------------------------------------------------------ the table
\* review_jobs row as inserted by enqueue: schema defaults for status,
\* attempts, max_attempts, created_at; nullable columns are NULL.
\* created_at (defaultNow) is kept as the insertion rank of the row;
\* started_at is either NULL or a time stamp.  One pull request per
\* installation is followed, so commit_sha tells the units of work apart.
NewRow(t, sha) ==
  [tenant |-> t, commitSha |-> sha, status |-> "pending", attempts |-> 0,
   maxAttempts |-> DefaultMaxAttempts, createdAt |-> Len(jobs) + 1,
   startedAt |-> Null, completedAt |-> Null, errorMessage |-> NoError,
   checkRunId |-> Null]

\* (the WHERE clause without the exclusion of installations)
EligibleAnyInstallation(j, exclude) ==
  /\ jobs[j].status = "pending"
  /\ jobs[j].attempts < jobs[j].maxAttempts

\* WHERE status = 'pending' AND attempts < max_attempts AND
\* installation_id NOT IN (exclude)
Eligible(j, exclude) ==
  /\ jobs[j].status = "pending"
  /\ jobs[j].attempts < jobs[j].maxAttempts
  /\ jobs[j].tenant \notin exclude

\* (the sub-select without FOR UPDATE SKIP LOCKED: locked rows are seen)
SeeLocked(cands) == cands

\* FOR UPDATE SKIP LOCKED: rows locked by another transaction are not seen
SkipLocked(cands) == cands \ locked

\* (the sub-select ordered by created_at DESC)
Newest(cands) ==
  {j \in cands : \A k \in cands : jobs[j].createdAt >= jobs[k].createdAt}

\* ORDER BY created_at LIMIT 1 over the visible eligible rows
\* (rows with equal created_at are returned in an unspecified order)
Oldest(cands) ==
  {j \in cands : \A k \in cands : jobs[j].createdAt <= jobs[k].createdAt}

Candidates(exclude) ==
  Oldest(SkipLocked({j \in JobIds : Eligible(j, exclude)}))

\* (the claim stamps the start time and leaves the status as it is)
ClaimedRowStillPending(r) == [r EXCEPT !.startedAt = Stamp]

\* SET status = 'processing', started_at = NOW()
ClaimedRow(r) == [r EXCEPT !.status = "processing", !.startedAt = Stamp]

\* .set({ status: "completed", completedAt: new Date() })
CompletedRow(r) == [r EXCEPT !.status = "completed", !.completedAt = Recent]

\* (the comparison written with > instead of >=)
FailStatusStrict(attempts, maxAttempts) ==
  IF attempts > maxAttempts THEN "failed" ELSE "pending"

\* const status = attempts >= job.maxAttempts ? "failed" : "pending"
FailStatus(attempts, maxAttempts) ==
  IF attempts >= maxAttempts THEN "failed" ELSE "pending"

\* (a failure write that sends the job to the back of the queue)
FailedRowRestamped(r, h) ==
  [r EXCEPT !.status = FailStatus(h.attempts + 1, h.maxAttempts),
            !.attempts = h.attempts + 1,
            !.errorMessage = ErrorText,
            !.startedAt = Null,
            !.createdAt = @ + MaxJobs]

\* .set({ status, attempts, errorMessage, startedAt: null }) with
\* attempts = job.attempts + 1 taken from the row read at dispatch
FailedRow(r, h) ==
  [r EXCEPT !.status = FailStatus(h.attempts + 1, h.maxAttempts),
            !.attempts = h.attempts + 1,
            !.errorMessage = ErrorText,
            !.startedAt = Null]

\* (recovery that charges the interrupted execution as an attempt)
RecoveredRowCounted(r) ==
  IF r.status = "processing"
  THEN [r EXCEPT !.status = "pending", !.startedAt = Null,
                 !.attempts = @ + 1]
  ELSE r

\* (recovery that also gives the job a fresh attempt budget)
RecoveredRowFresh(r) ==
  IF r.status = "processing"
  THEN [r EXCEPT !.status = "pending", !.startedAt = Null, !.attempts = 0]
  ELSE r

\* (recovery that also requeues failed jobs)
RecoveredRowRetry(r) ==
  IF r.status \in {"processing", "failed"}
  THEN [r EXCEPT !.status = "pending", !.startedAt = Null]
  ELSE r

\* (recovery that counts the interrupted run as an attempt)
RecoveredRowSpent(r) ==
  IF r.status = "processing"
  THEN [r EXCEPT !.status = "pending", !.startedAt = Null,
                 !.attempts = @ + 1]
  ELSE r

\* (recovery that resets the status only)
RecoveredRowKeepStart(r) ==
  IF r.status = "processing" THEN [r EXCEPT !.status = "pending"] ELSE r

\* .set({ status: "pending", startedAt: null }).where(status = 'processing')
RecoveredRow(r) ==
  IF r.status = "processing"
  THEN [r EXCEPT !.status = "pending", !.startedAt = Null]
  ELSE r

\* ---------------------------------------------------------- in memory
\* installations whose count has reached maxPerInstallation
RunningInstallations ==
  {t \in Tenants : runningPerInstallation[t] >= maxPerInstallation}

NoEntries == [t \in Tenants |-> 0]

\* no processReview, withRetry or getQueueStats invocation is followed
NoReview == [pc |-> "idle"]
NoRetry == [pc |-> "idle"]
NoStats == [pc |-> "idle"]
\* no delivery in flight, no AsyncQueue constructed, no chunkDiffs call
NoSubmit == EmptyBag
NoAsyncQueue == [pc |-> "idle"]
NoDiffer == [pc |-> "idle"]

\* the process ends: every in-memory object, timer and connection is gone,
\* open transactions are rolled back
ProcessDies ==
  /\ pc' = "down"
  /\ running' = 0
  /\ runningPerInstallation' = NoEntries
  /\ pollInterval' = FALSE
  /\ shuttingDown' = FALSE
  /\ draining' = FALSE
  /\ polls' = EmptyBag
  /\ handlers' = EmptyBag
  /\ lastRecovered' = {}
  /\ recoveries' = 0
  /\ locked' = {}

Init ==
  /\ jobs = <<>>
  /\ locked = {}
  /\ storeUp = TRUE
  /\ pc = "boot"
  /\ running = 0
  /\ runningPerInstallation = NoEntries
  /\ pollInterval = FALSE
  /\ shuttingDown = FALSE
  /\ draining = FALSE
  /\ polls = EmptyBag
  /\ handlers = EmptyBag
  /\ lastRecovered = {}
  /\ recoveries = 0
  /\ claimed = <<>>
  /\ faults = 0
  /\ review = NoReview
  /\ retry = NoRetry
  /\ stats = NoStats
  /\ submit = NoSubmit
  /\ asyncQueue = NoAsyncQueue
  /\ differ = NoDiffer

\* ------------------------------------------------------------ submission
\* (enqueueReview that skips the insert whenever the table holds a job of
\* the same installation and commit, whatever its status and age)
EnqueueOnce(t, sha) ==
  /\ pc # "down"
  /\ t <= Cardinality({jobs[j].tenant : j \in JobIds}) + 1
  /\ sha <= Cardinality({jobs[j].commitSha :
                            j \in {k \in JobIds : jobs[k].tenant = t}}) + 1
  /\ storeUp
  /\ Len(jobs) < MaxJobs
  /\ \A j \in JobIds : jobs[j].tenant # t \/ jobs[j].commitSha # sha
  /\ jobs' = Append(jobs, NewRow(t, sha))
  /\ claimed' = Append(claimed, 0)
  /\ UNCHANGED <<locked, storeUp, memory, faults>>
  /\ UNCHANGED aside

\* enqueueReview -> PersistentQueue.enqueue: insert one pending row.
\* Installation ids and commit hashes are opaque keys: one not seen before
\* is given the next unused number.
Enqueue(t, sha) ==
  /\ pc # "down"
  /\ t <= Cardinality({jobs[j].tenant : j \in JobIds}) + 1
  /\ sha <= Cardinality({jobs[j].commitSha :
                            j \in {k \in JobIds : jobs[k].tenant = t}}) + 1
  /\ storeUp
  /\ Len(jobs) < MaxJobs
  /\ jobs' = Append(jobs, NewRow(t, sha))
  /\ claimed' = Append(claimed, 0)
  /\ UNCHANGED <<locked, storeUp, memory, faults>>
  /\ UNCHANGED aside

\* ------------------------------------------------------------- startup
\* startQueue: recoverStaleJobs() resolves
RecoverStaleJobs ==
  /\ pc = "boot"
  /\ storeUp
  /\ jobs' = [j \in JobIds |-> RecoveredRow(jobs[j])]
  /\ lastRecovered' = {j \in JobIds : jobs[j].status = "processing"}
  /\ claimed' = [j \in JobIds |->
                   IF jobs[j].status = "processing" THEN 0 ELSE claimed[j]]
  /\ recoveries' = recoveries + 1
  /\ pc' = "recovered"
  /\ UNCHANGED <<locked, storeUp, running, runningPerInstallation,
                 pollInterval, shuttingDown, draining, polls, handlers,
                 faults>>
  /\ UNCHANGED aside

\* startQueue: recoverStaleJobs() rejects; .then(start) never runs and the
\* rejection is unhandled: the runtime either goes on or ends the process
RecoverRejects ==
  /\ pc = "boot"
  /\ ~storeUp
  /\ \/ /\ pc' = "stalled"
        /\ recoveries' = recoveries + 1
        /\ UNCHANGED <<locked, running, runningPerInstallation, pollInterval,
                       shuttingDown, draining, polls, handlers, lastRecovered>>
     \/ ProcessDies
  /\ UNCHANGED <<jobs, storeUp, claimed, faults>>
  /\ UNCHANGED aside

\* (startQueue that starts the timer without waiting for the recovery)
StartAtOnce ==
  /\ pc \in {"boot", "recovered"}
  /\ pollInterval' = TRUE
  /\ pc' = "up"
  /\ UNCHANGED <<store, running, runningPerInstallation, shuttingDown,
                 draining, polls, handlers, lastRecovered, recoveries,
                 claimed, faults>>
  /\ UNCHANGED aside

\* startQueue: the .then callback, PersistentQueue.start
Start ==
  /\ pc = "recovered"
  /\ pollInterval' = TRUE
  /\ pc' = "up"
  /\ UNCHANGED <<store, running, runningPerInstallation, shuttingDown,
                 draining, polls, handlers, lastRecovered, recoveries,
                 claimed, faults>>
  /\ UNCHANGED aside

\* ---------------------------------------------------------------- poll
\* a timer tick: poll() up to its first await (the claim statement is sent)
PollTick ==
  /\ pollInterval
  /\ ~shuttingDown
  /\ running < Concurrency
  /\ BagCardinality(polls) < MaxPolls
  /\ polls' = BagAdd(polls, [pc |-> "claim", exclude |-> RunningInstallations,
                             job |-> 0])
  /\ UNCHANGED <<store, pc, running, runningPerInstallation, pollInterval,
                 shuttingDown, draining, handlers, lastRecovered, recoveries,
                 claimed, faults>>
  /\ UNCHANGED aside

\* the claim statement, sub-select: the oldest visible eligible row is locked
ClaimSelect(p) ==
  /\ p.pc = "claim"
  /\ storeUp
  /\ \E j \in Candidates(p.exclude) :
       /\ locked' = locked \cup {j}
       /\ polls' = BagAdd(BagDel(polls, p), [p EXCEPT !.pc = "locked", !.job = j])
  /\ UNCHANGED <<jobs, storeUp, pc, running, runningPerInstallation,
                 pollInterval, shuttingDown, draining, handlers,
                 lastRecovered, recoveries, claimed, faults>>
  /\ UNCHANGED aside

\* the claim statement finds no row: jobId == null, poll returns
ClaimNone(p) ==
  /\ p.pc = "claim"
  /\ storeUp
  /\ Candidates(p.exclude) = {}
  /\ polls' = BagDel(polls, p)
  /\ UNCHANGED <<store, pc, running, runningPerInstallation, pollInterval,
                 shuttingDown, draining, handlers, lastRecovered, recoveries,
                 claimed, faults>>
  /\ UNCHANGED aside

\* the claim statement, update: the locked row becomes processing, the
\* transaction commits and RETURNING id reaches poll, which sends the select
ClaimUpdate(p) ==
  /\ p.pc = "locked"
  /\ storeUp
  /\ jobs' = [jobs EXCEPT ![p.job] = ClaimedRow(@)]
  /\ locked' = locked \ {p.job}
  /\ claimed' = [claimed EXCEPT ![p.job] = @ + 1]
  /\ polls' = BagAdd(BagDel(polls, p), [p EXCEPT !.pc = "select"])
  /\ UNCHANGED <<storeUp, pc, running, runningPerInstallation,
                 pollInterval, shuttingDown, draining, handlers,
                 lastRecovered, recoveries, faults>>
  /\ UNCHANGED aside

\* the claim statement rejects: the transaction is rolled back, poll rejects
\* and nobody handles the rejection
ClaimRejects(p) ==
  /\ p.pc \in {"claim", "locked"}
  /\ ~storeUp
  /\ \/ /\ polls' = BagDel(polls, p)
        /\ locked' = locked \ {p.job}
        /\ UNCHANGED <<pc, running, runningPerInstallation, pollInterval,
                       shuttingDown, draining, handlers, lastRecovered,
                       recoveries>>
     \/ ProcessDies
  /\ UNCHANGED <<jobs, storeUp, claimed, faults>>
  /\ UNCHANGED aside

\* the select returns typedJob: counters are incremented, processJob starts
SelectReturns(p) ==
  /\ p.pc = "select"
  /\ storeUp
  /\ running' = running + 1
  /\ runningPerInstallation' =
       [runningPerInstallation EXCEPT ![jobs[p.job].tenant] = @ + 1]
  /\ handlers' = BagAdd(handlers,
       [job |-> p.job, tenant |-> jobs[p.job].tenant,
        attempts |-> jobs[p.job].attempts,
        maxAttempts |-> jobs[p.job].maxAttempts,
        pc |-> "handler", work |-> "running", rejected |-> FALSE])
  /\ polls' = BagDel(polls, p)
  /\ UNCHANGED <<store, pc, pollInterval, shuttingDown, draining,
                 lastRecovered, recoveries, claimed, faults>>
  /\ UNCHANGED aside

\* the select rejects: poll rejects after the claim was committed
SelectRejects(p) ==
  /\ p.pc = "select"
  /\ ~storeUp
  /\ \/ /\ polls' = BagDel(polls, p)
        /\ UNCHANGED <<locked, pc, running, runningPerInstallation,
                       pollInterval, shuttingDown, draining, handlers,
                       lastRecovered, recoveries>>
     \/ ProcessDies
  /\ UNCHANGED <<jobs, storeUp, claimed, faults>>
  /\ UNCHANGED aside

\* ---------------------------------------------------------- processJob
\* processReview touches no state of the queue, so its outcome is drawn in
\* the step that writes the result.  The first call of processReview that
\* fails, if any, is one of
\*   "setup":  getOctokit, the installation and settings selects or the
\*             insert of the review row, all outside the try block;
\*   "config": the installation or its settings are not found, reviews
\*             are disabled or no API key is stored: processReview marks
\*             the check run failed and returns;
\*   "work":   fetching the configuration or the diff, the provider's
\*             review or posting the review, inside the try block;
\*   "record": the update of the review row or markCheckSuccess, made after
\*             the review was posted, inside the try block.
ReviewFailures == {"none", "setup", "config", "work", "record"}

\* The catch block of processReview records the failure and returns; the
\* promise rejects only for a failure outside the try block or when the
\* catch block's own update or markCheckFailed rejects.
processReview(failure, catchRejects) ==
  [work |-> IF failure \in {"none", "record"} THEN "succeeded"
            ELSE IF failure = "config" THEN "misconfigured" ELSE "failed",
   rejects |-> \/ failure = "setup"
               \/ failure \in {"work", "record"} /\ catchRejects]

\* outcomes of the handler with which the promise resolves / rejects
Resolved ==
  {processReview(f, c).work :
     <<f, c>> \in {x \in ReviewFailures \X BOOLEAN :
                     ~processReview(x[1], x[2]).rejects}}
Rejected ==
  {processReview(f, c).work :
     <<f, c>> \in {x \in ReviewFailures \X BOOLEAN :
                     processReview(x[1], x[2]).rejects}}

\* the handler resolved and the completion write is applied
CompleteWrite(h) ==
  /\ h.pc = "handler"
  /\ storeUp
  /\ h.job \notin locked
  /\ jobs' = [jobs EXCEPT ![h.job] = CompletedRow(@)]
  /\ \E w \in Resolved :
       handlers' = BagAdd(BagDel(handlers, h),
                          [h EXCEPT !.pc = "settle", !.work = w])
  /\ UNCHANGED <<locked, storeUp, pc, running, runningPerInstallation,
                 pollInterval, shuttingDown, draining, polls, lastRecovered,
                 recoveries, claimed, faults>>
  /\ UNCHANGED aside

\* the handler resolved and the completion write rejects inside the try
\* block: the catch block is entered
CompleteRejects(h) ==
  /\ h.pc = "handler"
  /\ ~storeUp
  /\ \E w \in Resolved :
       handlers' = BagAdd(BagDel(handlers, h),
                          [h EXCEPT !.pc = "catch", !.work = w])
  /\ UNCHANGED <<store, pc, running, runningPerInstallation, pollInterval,
                 shuttingDown, draining, polls, lastRecovered, recoveries,
                 claimed, faults>>
  /\ UNCHANGED aside

\* the handler rejected, or the completion write did: the failure write of
\* the catch block is applied
FailWrite(h) ==
  /\ h.pc \in {"handler", "catch"}
  /\ storeUp
  /\ h.job \notin locked
  /\ jobs' = [jobs EXCEPT ![h.job] = FailedRow(@, h)]
  /\ claimed' = [claimed EXCEPT ![h.job] =
                   IF FailedRow(jobs[h.job], h).status = "pending" THEN 0 ELSE @]
  /\ \E w \in (IF h.pc = "handler" THEN Rejected ELSE {h.work}) :
       handlers' = BagAdd(BagDel(handlers, h),
                          [h EXCEPT !.pc = "settle", !.work = w])
  /\ UNCHANGED <<locked, storeUp, pc, running, runningPerInstallation,
                 pollInterval, shuttingDown, draining, polls, lastRecovered,
                 recoveries, faults>>
  /\ UNCHANGED aside

\* the failure write rejects: processJob rejects
FailRejects(h) ==
  /\ h.pc \in {"handler", "catch"}
  /\ ~storeUp
  /\ \E w \in (IF h.pc = "handler" THEN Rejected ELSE {h.work}) :
       handlers' = BagAdd(BagDel(handlers, h),
                          [h EXCEPT !.pc = "settle", !.work = w,
                                    !.rejected = TRUE])
  /\ UNCHANGED <<store, pc, running, runningPerInstallation, pollInterval,
                 shuttingDown, draining, polls, lastRecovered, recoveries,
                 claimed, faults>>
  /\ UNCHANGED aside

\* (.then instead of .finally: a rejected processJob is not counted down)
SettleThen(h) ==
  /\ h.pc = "settle"
  /\ \/ /\ running' = IF h.rejected THEN running ELSE running - 1
        /\ runningPerInstallation' =
             IF h.rejected THEN runningPerInstallation
             ELSE [runningPerInstallation EXCEPT ![h.tenant] =
                     IF @ <= 1 THEN 0 ELSE @ - 1]
        /\ handlers' = BagDel(handlers, h)
        /\ UNCHANGED <<locked, pc, pollInterval, shuttingDown, draining,
                       polls, lastRecovered, recoveries>>
     \/ /\ h.rejected
        /\ ProcessDies
  /\ UNCHANGED <<jobs, storeUp, claimed, faults>>
  /\ UNCHANGED aside

\* the .finally callback of poll: both counters are decremented; when
\* processJob rejected, the promise returned by .finally rejects unhandled
Settle(h) ==
  /\ h.pc = "settle"
  /\ \/ /\ running' = running - 1
        /\ runningPerInstallation' =
             [runningPerInstallation EXCEPT ![h.tenant] =
                IF @ <= 1 THEN 0 ELSE @ - 1]
        /\ handlers' = BagDel(handlers, h)
        /\ UNCHANGED <<locked, pc, pollInterval, shuttingDown, draining,
                       polls, lastRecovered, recoveries>>
     \/ /\ h.rejected
        /\ ProcessDies
  /\ UNCHANGED <<jobs, storeUp, claimed, faults>>
  /\ UNCHANGED aside

\* ------------------------------------------------------------- shutdown
\* SIGTERM / SIGINT: shutdown() -> stopQueue(): stop(), waitForCompletion()
Stop ==
  /\ pc # "down"
  /\ ~draining
  /\ faults < MaxFaults
  /\ faults' = faults + 1
  /\ shuttingDown' = TRUE
  /\ pollInterval' = FALSE
  /\ draining' = TRUE
  /\ UNCHANGED <<store, pc, running, runningPerInstallation, polls, handlers,
                 lastRecovered, recoveries, claimed>>
  /\ UNCHANGED aside

\* waitForCompletion sees running = 0 and resolves; shutdown() calls
\* process.exit(0)
Exit ==
  /\ draining
  /\ running = 0
  /\ ProcessDies
  /\ UNCHANGED <<jobs, storeUp, claimed, faults>>
  /\ UNCHANGED aside

\* --------------------------------------------------------- environment
\* the process is killed
Crash ==
  /\ pc # "down"
  /\ faults < MaxFaults
  /\ faults' = faults + 1
  /\ ProcessDies
  /\ UNCHANGED <<jobs, storeUp, claimed>>
  /\ UNCHANGED aside

\* the process is started again: main() calls startQueue()
Restart ==
  /\ pc = "down"
  /\ pc' = "boot"
  /\ UNCHANGED <<store, running, runningPerInstallation, pollInterval,
                 shuttingDown, draining, polls, handlers, lastRecovered,
                 recoveries, claimed, faults>>
  /\ UNCHANGED aside

\* the database becomes unreachable
StoreFails ==
  /\ storeUp
  /\ faults < MaxFaults
  /\ faults' = faults + 1
  /\ storeUp' = FALSE
  /\ UNCHANGED <<jobs, locked, memory, claimed>>
  /\ UNCHANGED aside

\* the database is reachable again
StoreReturns ==
  /\ ~storeUp
  /\ storeUp' = TRUE
  /\ UNCHANGED <<jobs, locked, memory, claimed, faults>>
  /\ UNCHANGED aside

\* time passes: every completion so far is now at least 5 minutes old
WindowPasses ==
  /\ \E j \in JobIds : jobs[j].completedAt = Recent
  /\ jobs' = [j \in JobIds |->
               IF jobs[j].completedAt = Recent
               THEN [jobs[j] EXCEPT !.completedAt = Past] ELSE jobs[j]]
  /\ UNCHANGED <<locked, storeUp, memory, claimed, faults>>
  /\ UNCHANGED aside

Next ==
  \/ \E t \in Tenants, sha \in Revisions : Enqueue(t, sha)
  \/ RecoverStaleJobs
  \/ RecoverRejects
  \/ Start
  \/ PollTick
  \/ \E p \in BagToSet(polls) : ClaimSelect(p)
  \/ \E p \in BagToSet(polls) : ClaimNone(p)
  \/ \E p \in BagToSet(polls) : ClaimUpdate(p)
  \/ \E p \in BagToSet(polls) : ClaimRejects(p)
  \/ \E p \in BagToSet(polls) : SelectReturns(p)
  \/ \E p \in BagToSet(polls) : SelectRejects(p)
  \/ \E h \in BagToSet(handlers) : CompleteWrite(h)
  \/ \E h \in BagToSet(handlers) : CompleteRejects(h)
  \/ \E h \in BagToSet(handlers) : FailWrite(h)
  \/ \E h \in BagToSet(handlers) : FailRejects(h)
  \/ \E h \in BagToSet(handlers) : Settle(h)
  \/ Stop
  \/ Exit
  \/ Crash
  \/ Restart
  \/ StoreFails
  \/ StoreReturns
  \/ WindowPasses

Spec == Init /\ [][Next]_vars

TypeOK ==
  /\ running \in Nat
  /\ \A j \in JobIds :
       jobs[j].status \in {"pending", "processing", "completed", "failed"}

\* ------------------------------------------------------------ properties
\* number of copies in bag b of the records in S
Count(b, S) ==
  LET Sum[T \in SUBSET S] ==
        IF T = {} THEN 0
        ELSE LET e == CHOOSE x \in T : TRUE
             IN CopiesIn(e, b) + Sum[T \ {e}]
  IN Sum[S]

\* claims in progress that hold row j
Holders(j) ==
  Count(polls, {p \in BagToSet(polls) : p.pc = "locked" /\ p.job = j})

\* processJob invocations whose handler or result write for j is pending
Executing(j) ==
  Count(handlers, {h \in BagToSet(handlers) : h.job = j /\ h.pc # "settle"})

\* C1: claim atomicity.  Of any number of concurrent claim statements, at
\* most one returns a given pending job: a row is held by one claim at a
\* time, a claim returns a job only if the job was pending and not yet
\* returned to another claim, and a claim returns none only if every job
\* eligible for it is held by a concurrent claim (which then returns it).
C1_ClaimAtomicity ==
  /\ [](\A j \in JobIds : claimed[j] <= 1 /\ Holders(j) <= 1)
  /\ [][\A j \in JobIds :
          claimed'[j] > claimed[j] =>
            /\ jobs[j].status = "pending"
            /\ jobs[j].attempts < jobs[j].maxAttempts
            /\ jobs'[j].status = "processing"
            /\ claimed[j] = 0]_vars
  /\ [][\A p \in BagToSet(polls) :
          ClaimNone(p) =>
            \A j \in JobIds :
              (/\ jobs[j].status = "pending"
               /\ jobs[j].attempts < jobs[j].maxAttempts
               /\ jobs[j].tenant \notin p.exclude) => Holders(j) = 1]_vars

\* two claims race for the only pending job: one holds it, the other is
\* about to be evaluated
C1_Witness ==
  \E j \in JobIds :
    /\ {k \in JobIds : jobs[k].status = "pending"} = {j}
    /\ Holders(j) = 1
    /\ \E p \in BagToSet(polls) : p.pc = "claim" /\ jobs[j].tenant \notin p.exclude

\* C2: in every reachable state a job is executed by at most one handler.
C2_OneHandlerPerJob ==
  \A j \in JobIds : Executing(j) <= 1

\* a job that was requeued or recovered is executed again while a claim of
\* an overlapping tick is in flight
C2_Witness ==
  \E h \in BagToSet(handlers) :
    /\ h.pc = "handler"
    /\ jobs[h.job].status = "processing"
    /\ (h.attempts > 0 \/ h.job \in lastRecovered)
    /\ polls # EmptyBag

\* ------------------------------------------------------------- fairness
\* The timer keeps ticking, database calls return, every handler
\* terminates, the .finally callback runs, the store comes back, a process
\* that ended is started again and startup runs.
Fairness ==
  /\ WF_vars(RecoverStaleJobs)
  /\ WF_vars(Start)
  /\ WF_vars(PollTick)
  /\ WF_vars(\E p \in BagToSet(polls) : ClaimSelect(p))
  /\ WF_vars(\E p \in BagToSet(polls) : ClaimNone(p))
  /\ WF_vars(\E p \in BagToSet(polls) : ClaimUpdate(p))
  /\ WF_vars(\E p \in BagToSet(polls) : SelectReturns(p))
  /\ WF_vars(\E h \in BagToSet(handlers) : CompleteWrite(h) \/ FailWrite(h))
  /\ WF_vars(\E h \in BagToSet(handlers) : Settle(h))
  /\ WF_vars(Exit)
  /\ WF_vars(Restart)
  /\ WF_vars(StoreReturns)

FairSpec == Spec /\ Fairness

\* C3: no job is lost.  Under fairness every job that was inserted
\* eventually reaches completed or failed.
C3_NoJobLost ==
  \A j \in 1..MaxJobs :
    (Len(jobs) >= j) ~>
      (Len(jobs) >= j /\ jobs[j].status \in {"completed", "failed"})

\* C4: the attempts counter of a job never decreases and never exceeds the
\* job's max_attempts.
C4_AttemptsMonotoneBounded ==
  /\ [](\A j \in JobIds : jobs[j].attempts <= jobs[j].maxAttempts)
  /\ [][\A j \in JobIds : jobs'[j].attempts >= jobs[j].attempts]_vars

\* a job used up its attempts, and a job that failed before was recovered
\* by a later process start
C4_Witness ==
  /\ \E j \in JobIds : jobs[j].attempts = jobs[j].maxAttempts
  /\ \E j \in lastRecovered : jobs[j].attempts > 0

\* C5: every status change is pending->processing, processing->pending,
\* processing->completed or processing->failed; a completed or failed job
\* never changes status again.
C5_StatusTransitions ==
  [][\A j \in JobIds :
       jobs'[j].status # jobs[j].status =>
         <<jobs[j].status, jobs'[j].status>> \in
           {<<"pending", "processing">>, <<"processing", "pending">>,
            <<"processing", "completed">>, <<"processing", "failed">>}]_vars

\* a failed job and a job completed after a retry outlive a process restart
C5_Witness ==
  /\ \E j \in JobIds : jobs[j].status = "failed"
  /\ \E j \in JobIds : jobs[j].status = "completed" /\ jobs[j].attempts > 0
  /\ faults > 0
  /\ pc = "up"

\* C6: right after recoverStaleJobs returns no job is processing, and every
\* job that was processing before the call is pending with started_at NULL.
C6_RecoveryResetsActive ==
  /\ [](pc = "recovered" =>
          /\ \A j \in JobIds : jobs[j].status # "processing"
          /\ \A j \in lastRecovered :
               jobs[j].status = "pending" /\ jobs[j].startedAt = Null)
  /\ [][recoveries' > recoveries /\ pc' = "recovered" =>
          \A j \in JobIds :
            jobs[j].status = "processing" =>
              /\ jobs'[j].status = "pending"
              /\ jobs'[j].startedAt = Null
              /\ j \in lastRecovered']_vars

\* recovery has just returned and did reset a job left processing
C6_Witness ==
  /\ pc = "recovered"
  /\ lastRecovered # {}

\* C7: on every process start recovery runs once and before polling: no
\* timer and no claim exists until recoverStaleJobs has completed, and it
\* is not run again while the timer or a claim exists.
C7_RecoveryBeforePolling ==
  /\ [](recoveries <= 1)
  /\ []((pollInterval \/ polls # EmptyBag \/ handlers # EmptyBag) =>
          recoveries = 1 /\ pc = "up")
  /\ [][recoveries' > recoveries =>
          ~pollInterval /\ polls = EmptyBag /\ handlers = EmptyBag
          /\ ~pollInterval' /\ polls' = EmptyBag]_vars

\* a restarted process has recovered a job and a claim is in flight
C7_Witness ==
  /\ faults > 0
  /\ lastRecovered # {}
  /\ pollInterval
  /\ \E p \in BagToSet(polls) : p.pc = "locked"

\* C8: a job left processing by the previous run is claimable after
\* recovery (pending, attempts < max_attempts, no installation excluded);
\* a claim for which it is the oldest visible eligible job takes it and
\* does not return none; the completion write of its handler makes it
\* completed; and, unless the store becomes unreachable or the process
\* ends again, the job does reach completed or failed.
C8_CrashRecoveryScenario ==
  /\ [](pc = "recovered" =>
          /\ RunningInstallations = {}
          /\ \A j \in lastRecovered :
               /\ jobs[j].status = "pending"
               /\ jobs[j].attempts < jobs[j].maxAttempts)
  /\ [][\A p \in BagToSet(polls) : \A j \in lastRecovered :
          (/\ p.pc = "claim"
           /\ jobs[j].status = "pending"
           /\ jobs[j].tenant \notin p.exclude
           /\ j \notin locked
           /\ \A k \in JobIds \ {j} :
                (/\ jobs[k].status = "pending"
                 /\ jobs[k].attempts < jobs[k].maxAttempts
                 /\ jobs[k].tenant \notin p.exclude
                 /\ k \notin locked) => jobs[k].createdAt > jobs[j].createdAt
           /\ (ClaimSelect(p) \/ ClaimNone(p)))
          => j \in locked']_vars
  /\ [][\A h \in BagToSet(handlers) :
          (h.job \in lastRecovered /\ CompleteWrite(h)) =>
             /\ jobs'[h.job].status = "completed"
             /\ jobs'[h.job].completedAt # Null
             /\ jobs'[h.job].attempts = jobs[h.job].attempts]_vars
  /\ \A j \in 1..MaxJobs :
       (pc = "recovered" /\ j \in lastRecovered) ~>
         \/ j \in JobIds /\ jobs[j].status \in {"completed", "failed"}
         \/ ~storeUp
         \/ pc = "down"

\* a job recovered by this process start has been claimed and completed
C8_Witness ==
  \E j \in lastRecovered :
    /\ jobs[j].status = "completed"
    /\ claimed[j] = 1

\* C9: the failure write adds exactly one to attempts and records the error
\* message; the job is failed if the new attempts value has reached
\* max_attempts and otherwise pending with started_at NULL.  With
\* max_attempts = 3 a job is failed exactly when attempts = 3.
C9_FailOrRequeue ==
  /\ [][\A h \in BagToSet(handlers) :
          FailWrite(h) =>
            /\ jobs'[h.job].attempts = jobs[h.job].attempts + 1
            /\ jobs'[h.job].errorMessage = ErrorText
            /\ jobs'[h.job].attempts >= jobs[h.job].maxAttempts =>
                 jobs'[h.job].status = "failed"
            /\ jobs'[h.job].attempts < jobs[h.job].maxAttempts =>
                 /\ jobs'[h.job].status = "pending"
                 /\ jobs'[h.job].startedAt = Null]_vars
  /\ [][\A j \in JobIds :
          jobs'[j].attempts # jobs[j].attempts =>
            /\ jobs'[j].attempts = jobs[j].attempts + 1
            /\ jobs'[j].errorMessage # NoError]_vars
  /\ [](\A j \in JobIds :
          jobs[j].maxAttempts = 3 =>
            /\ jobs[j].status = "failed" <=> jobs[j].attempts = 3
            /\ jobs[j].attempts \in {1, 2} =>
                 jobs[j].errorMessage # NoError)

\* a job with max_attempts = 3 is failed with attempts = 3 while another
\* job is pending again after a failure
C9_Witness ==
  /\ \E j \in JobIds :
       /\ jobs[j].status = "failed"
       /\ jobs[j].attempts = 3
       /\ jobs[j].maxAttempts = 3
  /\ \E j \in JobIds :
       /\ jobs[j].status = "pending"
       /\ jobs[j].attempts \in {1, 2}
       /\ jobs[j].startedAt = Null

\* processJob invocations of installation t whose handler or result write
\* is pending
ExecutingFor(t) ==
  Count(handlers, {h \in BagToSet(handlers) : h.tenant = t /\ h.pc # "settle"})

\* C10: per-installation ceiling.  At every instant the number of jobs the
\* process is executing for one installation is at most maxPerInstallation.
C10_PerTenantCeiling ==
  \A t \in Tenants : ExecutingFor(t) <= maxPerInstallation

\* ------------------------------------------------- start with a backlog
\* The process is started on a table that already holds pending jobs, two
\* for each installation in turn, submitted while an earlier process ran.
BacklogRow(j) ==
  [tenant |-> (((j - 1) \div 2) % NumTenants) + 1,
   commitSha |-> ((j - 1) % 2) + (2 * ((j - 1) \div (2 * NumTenants))) + 1,
   status |-> "pending", attempts |-> 0,
   maxAttempts |-> DefaultMaxAttempts, createdAt |-> j,
   startedAt |-> Null, completedAt |-> Null, errorMessage |-> NoError,
   checkRunId |-> Null]

BacklogInit ==
  /\ jobs = [j \in 1..BacklogJobs |-> BacklogRow(j)]
  /\ locked = {}
  /\ storeUp = TRUE
  /\ pc = "boot"
  /\ running = 0
  /\ runningPerInstallation = NoEntries
  /\ pollInterval = FALSE
  /\ shuttingDown = FALSE
  /\ draining = FALSE
  /\ polls = EmptyBag
  /\ handlers = EmptyBag
  /\ lastRecovered = {}
  /\ recoveries = 0
  /\ claimed = [j \in 1..BacklogJobs |-> 0]
  /\ faults = 0
  /\ review = NoReview
  /\ retry = NoRetry
  /\ stats = NoStats
  /\ submit = NoSubmit
  /\ asyncQueue = NoAsyncQueue
  /\ differ = NoDiffer

\* the steps of a run in which the store stays reachable, every handler
\* resolves and the process is neither stopped nor killed
BacklogNext ==
  \/ RecoverStaleJobs
  \/ Start
  \/ PollTick
  \/ \E p \in BagToSet(polls) : ClaimSelect(p)
  \/ \E p \in BagToSet(polls) : ClaimNone(p)
  \/ \E p \in BagToSet(polls) : ClaimUpdate(p)
  \/ \E p \in BagToSet(polls) : SelectReturns(p)
  \/ \E h \in BagToSet(handlers) : CompleteWrite(h)
  \/ \E h \in BagToSet(handlers) : Settle(h)

BacklogSpec == BacklogInit /\ [][BacklogNext]_vars

\* processJob invocations whose handler or result write is pending
ExecutingAll ==
  Count(handlers, {h \in BagToSet(handlers) : h.pc # "settle"})

\* C11: global ceiling.  At every instant PersistentQueue.running and the
\* number of handlers executing are at most the configured concurrency.
C11_GlobalCeiling ==
  /\ running <= Concurrency
  /\ ExecutingAll <= Concurrency

\* C12: claim eligibility.  A claim selects and returns only a job that is
\* pending, has attempts < max_attempts and belongs to no installation of
\* the claim's exclusion set; a job becomes processing only through such a
\* claim, so a processing, completed or failed job, or one whose attempts
\* equal max_attempts, is never claimed.
C12_ClaimEligibility ==
  /\ [](\A p \in BagToSet(polls) :
          p.pc = "locked" =>
            /\ jobs[p.job].status = "pending"
            /\ jobs[p.job].attempts < jobs[p.job].maxAttempts
            /\ jobs[p.job].tenant \notin p.exclude)
  /\ [][\A j \in JobIds :
          (claimed'[j] > claimed[j] \/
           (jobs'[j].status = "processing" /\ jobs[j].status # "processing")) =>
            /\ jobs[j].status = "pending"
            /\ jobs[j].attempts < jobs[j].maxAttempts
            /\ \E p \in BagToSet(polls) :
                 /\ p.pc = "locked"
                 /\ p.job = j
                 /\ jobs[j].tenant \notin p.exclude
                 /\ ClaimUpdate(p)]_vars

\* a claim made with a non-empty exclusion set has returned a job while an
\* older pending job of an excluded installation was passed over
C12_Witness ==
  \E p \in BagToSet(polls) :
    /\ p.pc = "select"
    /\ \E k \in JobIds :
         /\ jobs[k].status = "pending"
         /\ jobs[k].attempts < jobs[k].maxAttempts
         /\ jobs[k].tenant \in p.exclude
         /\ jobs[k].createdAt < jobs[p.job].createdAt

\* C13: FIFO claim order.  Whenever a claim selects the job it returns, no
\* other job that is eligible at that moment (pending, attempts <
\* max_attempts, installation not excluded) has an earlier creation time.
C13_FifoClaimOrder ==
  [][\A p \in BagToSet(polls) : \A j \in JobIds :
       (ClaimSelect(p) /\ j \in locked' \ locked) =>
         \A k \in JobIds :
           Eligible(k, p.exclude) => jobs[k].createdAt >= jobs[j].createdAt]_vars

\* C13 as amended: whenever a claim selects the job it returns, no other
\* job that is eligible at that moment and not locked by a concurrent claim
\* has an earlier creation time.
C13_FifoAmongVisible ==
  [][\A p \in BagToSet(polls) : \A j \in JobIds :
       (ClaimSelect(p) /\ j \in locked' \ locked) =>
         \A k \in JobIds :
           (Eligible(k, p.exclude) /\ k \notin locked) =>
             jobs[k].createdAt >= jobs[j].createdAt]_vars

\* a claim holds the older of two jobs that were both eligible for it and
\* visible
C13_Witness ==
  \E p \in BagToSet(polls) :
    /\ p.pc = "locked"
    /\ \E k \in JobIds :
         /\ Eligible(k, p.exclude)
         /\ k \notin locked
         /\ jobs[k].createdAt > jobs[p.job].createdAt

\* jobs of the table for installation t and commit sha
JobsFor(t, sha) ==
  {j \in JobIds : jobs[j].tenant = t /\ jobs[j].commitSha = sha}

\* (the first check looking for processing jobs only)
OutstandingProcessing(t, sha) ==
  \E j \in JobsFor(t, sha) : jobs[j].status = "processing"

\* a job of the same unit of work is pending or processing
Outstanding(t, sha) ==
  \E j \in JobsFor(t, sha) : jobs[j].status \in {"pending", "processing"}

\* a job of the same unit of work completed less than 5 minutes ago
RecentlyCompleted(t, sha) ==
  \E j \in JobsFor(t, sha) :
    jobs[j].status = "completed" /\ jobs[j].completedAt = Recent

\* C14: idempotent submission while outstanding.  No job row is created
\* for an installation and commit for which a job is pending or processing.
C14_IdempotentWhileOutstanding ==
  [][Len(jobs') > Len(jobs) =>
       ~Outstanding(jobs'[Len(jobs')].tenant, jobs'[Len(jobs')].commitSha)]_vars

\* C15: idempotency window.  No job row is created for an installation and
\* commit whose job completed less than 5 minutes ago.
C15_IdempotencyWindow ==
  [][Len(jobs') > Len(jobs) =>
       ~RecentlyCompleted(jobs'[Len(jobs')].tenant,
                          jobs'[Len(jobs')].commitSha)]_vars

\* C16: a submission that is not a duplicate (no job of the same
\* installation and commit is pending or processing and none completed
\* within the last 5 minutes) is accepted while the store is reachable, and
\* it creates exactly one row, pending with attempts 0, and changes no
\* other row.
C16_NonDuplicateAccepted ==
  /\ [](\A t \in Tenants, sha \in Revisions :
          (/\ pc # "down"
           /\ storeUp
           /\ Len(jobs) < MaxJobs
           /\ t <= Cardinality({jobs[j].tenant : j \in JobIds}) + 1
           /\ sha <= Cardinality({jobs[j].commitSha :
                                     j \in {k \in JobIds : jobs[k].tenant = t}}) + 1
           /\ ~Outstanding(t, sha)
           /\ ~RecentlyCompleted(t, sha)) => ENABLED Enqueue(t, sha))
  /\ [][\A t \in Tenants, sha \in Revisions :
          (Enqueue(t, sha) /\ ~Outstanding(t, sha)
                           /\ ~RecentlyCompleted(t, sha)) =>
            /\ Len(jobs') = Len(jobs) + 1
            /\ \A j \in JobIds : jobs'[j] = jobs[j]
            /\ jobs'[Len(jobs')].tenant = t
            /\ jobs'[Len(jobs')].commitSha = sha
            /\ jobs'[Len(jobs')].status = "pending"
            /\ jobs'[Len(jobs')].attempts = 0]_vars

\* a job was accepted for another commit of an installation whose earlier
\* job is completed
C16_Witness ==
  /\ Len(jobs) = 2
  /\ jobs[1].tenant = jobs[2].tenant
  /\ jobs[1].commitSha # jobs[2].commitSha
  /\ jobs[1].status = "completed"
  /\ jobs[2].status = "pending"
  /\ jobs[2].attempts = 0

\* C17: after stop() has been called no job moves from pending to
\* processing in this process and no new handler is dispatched, also not by
\* a tick that had started before stop().
C17_NoClaimAfterStop ==
  [][shuttingDown =>
       /\ \A j \in JobIds :
            jobs[j].status = "pending" => jobs'[j].status # "processing"
       /\ BagCardinality(handlers') <= BagCardinality(handlers)]_vars

\* C18: drain on shutdown.  stopQueue resolves (and the process exits) only
\* when the in-flight counter is zero, no handler is executing and no job
\* claimed by a tick of this process is still processing.
C18_DrainOnShutdown ==
  [][Exit =>
       /\ running = 0
       /\ ExecutingAll = 0
       /\ \A p \in BagToSet(polls) :
            p.pc = "select" => jobs[p.job].status # "processing"]_vars

\* processJob invocations whose result write was applied in this step
Written ==
  {h \in BagToSet(handlers') :
     /\ h.pc = "settle"
     /\ ~h.rejected
     /\ CopiesIn(h, handlers') > CopiesIn(h, handlers)}

\* C19: a failed execution is recorded as a failure.  Whenever the work of
\* a claimed job failed, the write made for that execution is the failure
\* write (attempts + 1, error message, status pending or failed); the job
\* is not marked completed for it.
C19_FailureRecorded ==
  [][\A h \in Written :
       h.work = "failed" =>
         /\ jobs'[h.job].status \in {"pending", "failed"}
         /\ jobs'[h.job].attempts = jobs[h.job].attempts + 1
         /\ jobs'[h.job].errorMessage # NoError]_vars

\* C20: a successful execution is recorded as a success.  Whenever the work
\* of a claimed job succeeded, the write made for that execution marks the
\* job completed with a completion time and leaves attempts unchanged, also
\* when a store write or a status update made after the work failed.
C20_SuccessRecorded ==
  [][\A h \in Written :
       h.work = "succeeded" =>
         /\ jobs'[h.job].status = "completed"
         /\ jobs'[h.job].completedAt # Null
         /\ jobs'[h.job].attempts = jobs[h.job].attempts]_vars

\* C21: a misconfigured tenant fails fast.  When the installation or its
\* settings are absent, reviews are disabled or no API key is stored, the
\* write made for that execution makes the job failed; the job is neither
\* completed nor pending again.
C21_MisconfiguredFailsFast ==
  [][\A h \in Written :
       h.work = "misconfigured" => jobs'[h.job].status = "failed"]_vars

\* C23: store unavailability is not a job failure.  A poll tick whose store
\* call fails produces no claim (the job it was after is still pending),
\* changes no job row and leaves both in-flight counters as they were.
C23_StoreOutageIsNoFailure ==
  [][\A p \in BagToSet(polls) :
       (ClaimRejects(p) \/ SelectRejects(p)) =>
         /\ jobs' = jobs
         /\ p.job # 0 => jobs[p.job].status = "pending"
         /\ running' = running
         /\ runningPerInstallation' = runningPerInstallation]_vars

\* ----------------------------------------------------------- withRetry
\* Strings are sequences of one-character strings, so that toLowerCase and
\* includes are computed character by character.
UpperCase ==
  <<"A", "B", "C", "D", "E", "F", "G", "H", "I", "J", "K", "L", "M", "N",
    "O", "P", "Q", "R", "S", "T", "U", "V", "W", "X", "Y", "Z">>
LowerCase ==
  <<"a", "b", "c", "d", "e", "f", "g", "h", "i", "j", "k", "l", "m", "n",
    "o", "p", "q", "r", "s", "t", "u", "v", "w", "x", "y", "z">>

\* (the message compared as it is, without toLowerCase)
SameCase(str) == str

\* String.prototype.toLowerCase on the letters A-Z
ToLowerCase(str) ==
  [i \in 1..Len(str) |->
     IF \E k \in 1..Len(UpperCase) : UpperCase[k] = str[i]
     THEN LowerCase[CHOOSE k \in 1..Len(UpperCase) : UpperCase[k] = str[i]]
     ELSE str[i]]

\* String.prototype.includes
Includes(str, pattern) ==
  \E i \in 0..(Len(str) - Len(pattern)) :
    \A k \in 1..Len(pattern) : str[i + k] = pattern[k]

retryablePatterns ==
  {<<"r", "a", "t", "e", " ", "l", "i", "m", "i", "t">>,
   <<"t", "i", "m", "e", "o", "u", "t">>,
   <<"e", "c", "o", "n", "n", "r", "e", "s", "e", "t">>,
   <<"e", "c", "o", "n", "n", "r", "e", "f", "u", "s", "e", "d">>,
   <<"s", "o", "c", "k", "e", "t", " ", "h", "a", "n", "g", " ", "u",
     "p">>,
   <<"5", "0", "3">>,
   <<"5", "0", "2">>,
   <<"4", "2", "9">>}

\* isRetryableError: false for a value that is not an Error, otherwise
\* whether the lower-cased message contains one of the patterns
isRetryableError(error) ==
  /\ error.isError
  /\ \E pattern \in retryablePatterns :
       Includes(ToLowerCase(error.message), pattern)

\* Failures an external call of processReview raises: the thrown value is an
\* Error or not, its message (the text of a thrown string), the kind of
\* failure it reports, and the entry of retryablePatterns that the message
\* contains when letter case is ignored ("" when it contains none).
Errors ==
  <<[isError |-> TRUE, class |-> "reset", pattern |-> "econnreset",
     message |->
       <<"r", "e", "a", "d", " ", "E", "C", "O", "N", "N", "R", "E",
         "S", "E", "T">>],
    [isError |-> TRUE, class |-> "refused", pattern |-> "econnrefused",
     message |->
       <<"c", "o", "n", "n", "e", "c", "t", " ", "E", "C", "O", "N",
         "N", "R", "E", "F", "U", "S", "E", "D">>],
    [isError |-> TRUE, class |-> "rateLimit", pattern |-> "rate limit",
     message |->
       <<"R", "a", "t", "e", " ", "l", "i", "m", "i", "t", " ", "e",
         "x", "c", "e", "e", "d", "e", "d">>],
    [isError |-> TRUE, class |-> "status429", pattern |-> "429",
     message |->
       <<"4", "2", "9", " ", "T", "o", "o", " ", "M", "a", "n", "y",
         " ", "R", "e", "q", "u", "e", "s", "t", "s">>],
    [isError |-> TRUE, class |-> "status5xx", pattern |-> "503",
     message |->
       <<"5", "0", "3", " ", "S", "e", "r", "v", "i", "c", "e", " ",
         "U", "n", "a", "v", "a", "i", "l", "a", "b", "l", "e">>],
    [isError |-> TRUE, class |-> "status5xx", pattern |-> "502",
     message |->
       <<"5", "0", "2", " ", "B", "a", "d", " ", "G", "a", "t", "e",
         "w", "a", "y">>],
    [isError |-> TRUE, class |-> "status5xx", pattern |-> "",
     message |->
       <<"5", "0", "0", " ", "I", "n", "t", "e", "r", "n", "a", "l",
         " ", "S", "e", "r", "v", "e", "r", " ", "E", "r", "r", "o",
         "r">>],
    [isError |-> TRUE, class |-> "malformed", pattern |-> "",
     message |->
       <<"U", "n", "e", "x", "p", "e", "c", "t", "e", "d", " ", "t",
         "o", "k", "e", "n", " ", "<", " ", "i", "n", " ", "J", "S",
         "O", "N">>],
    [isError |-> FALSE, class |-> "other", pattern |-> "socket hang up",
     message |->
       <<"s", "o", "c", "k", "e", "t", " ", "h", "a", "n", "g", " ",
         "u", "p">>],
    [isError |-> TRUE, class |-> "timeout", pattern |-> "timeout",
     message |->
       <<"R", "e", "q", "u", "e", "s", "t", " ", "T", "i", "m", "e",
         "o", "u", "t">>]>>

Min(a, b) == IF a <= b THEN a ELSE b

\* (the delay without the cap)
DelayUncapped(attempt, initialDelayMs, maxDelayMs) ==
  initialDelayMs * (2 ^ (attempt - 1))

\* Math.min(initialDelayMs * Math.pow(2, attempt - 1), maxDelayMs)
Delay(attempt, initialDelayMs, maxDelayMs) ==
  Min(initialDelayMs * (2 ^ (attempt - 1)), maxDelayMs)

\* (the test written with > instead of ===)
RethrowsLate(attempt, maxAttempts, e) ==
  attempt > maxAttempts \/ ~isRetryableError(Errors[e])

\* attempt === maxAttempts || !shouldRetry(err), with shouldRetry =
\* isRetryableError as processReview passes it
Rethrows(attempt, maxAttempts, e) ==
  attempt = maxAttempts \/ ~isRetryableError(Errors[e])

\* withRetry is entered: options are destructured, attempt = 1
RetryEntered(m) ==
  [pc |-> "call", maxAttempts |-> m,
   initialDelayMs |-> DefaultInitialDelayMs, maxDelayMs |-> DefaultMaxDelayMs,
   attempt |-> 1, calls |-> 0, delays |-> <<>>, error |-> 0]

\* await fn() resolves: withRetry returns its value
RetryCallReturns ==
  /\ retry.pc = "call"
  /\ retry' = [retry EXCEPT !.pc = "returned", !.calls = @ + 1]
  /\ UNCHANGED <<store, memory, claimed, faults, review, stats,
                 others>>

\* await fn() rejects with Errors[e]: the error is rethrown, or the delay
\* is computed and sleep(delay) is awaited
RetryCallThrows(e) ==
  /\ retry.pc = "call"
  /\ retry' =
       IF Rethrows(retry.attempt, retry.maxAttempts, e)
       THEN [retry EXCEPT !.pc = "thrown", !.calls = @ + 1, !.error = e]
       ELSE [retry EXCEPT !.pc = "sleep", !.calls = @ + 1, !.error = e,
                          !.delays = Append(@, Delay(retry.attempt,
                                                     retry.initialDelayMs,
                                                     retry.maxDelayMs))]
  /\ UNCHANGED <<store, memory, claimed, faults, review, stats,
                 others>>

\* (a sleep that also counts an attempt on the rows being processed)
RetrySleepEndsCounted ==
  /\ retry.pc = "sleep"
  /\ retry' = [retry EXCEPT !.attempt = @ + 1,
                            !.pc = IF retry.attempt + 1 <= retry.maxAttempts
                                   THEN "call" ELSE "thrown"]
  /\ jobs' = [j \in JobIds |->
               IF jobs[j].status = "processing"
               THEN [jobs[j] EXCEPT !.attempts = @ + 1] ELSE jobs[j]]
  /\ UNCHANGED <<locked, storeUp, memory, claimed, faults, review, stats,
                 others>>

\* sleep resolves: attempt++, and the loop goes on while attempt <=
\* maxAttempts; after the loop lastError is thrown
RetrySleepEnds ==
  /\ retry.pc = "sleep"
  /\ retry' = [retry EXCEPT !.attempt = @ + 1,
                            !.pc = IF retry.attempt + 1 <= retry.maxAttempts
                                   THEN "call" ELSE "thrown"]
  /\ UNCHANGED <<store, memory, claimed, faults, review, stats,
                 others>>

\* withRetry called on its own, with maxAttempts from 1 up
RetryInit ==
  /\ jobs = <<>>
  /\ locked = {}
  /\ storeUp = TRUE
  /\ pc = "boot"
  /\ running = 0
  /\ runningPerInstallation = NoEntries
  /\ pollInterval = FALSE
  /\ shuttingDown = FALSE
  /\ draining = FALSE
  /\ polls = EmptyBag
  /\ handlers = EmptyBag
  /\ lastRecovered = {}
  /\ recoveries = 0
  /\ claimed = <<>>
  /\ faults = 0
  /\ review = NoReview
  /\ stats = NoStats
  /\ submit = NoSubmit
  /\ asyncQueue = NoAsyncQueue
  /\ differ = NoDiffer
  /\ retry \in {RetryEntered(m) : m \in 1..MaxRetryAttempts}

RetryNext ==
  \/ RetryCallReturns
  \/ \E e \in 1..Len(Errors) : RetryCallThrows(e)
  \/ RetrySleepEnds

RetrySpec == RetryInit /\ [][RetryNext]_vars


\* C24: the delay slept after the n-th failed call is
\* min(initialDelayMs * 2^(n-1), maxDelayMs); with 1000 ms and 10000 ms the
\* first six delays are 1000, 2000, 4000, 8000, 10000, 10000; the delays
\* never decrease and never exceed maxDelayMs.
C24_BackoffDelay ==
  \A n \in 1..Len(retry.delays) :
    /\ retry.delays[n] =
         Min(retry.initialDelayMs * (2 ^ (n - 1)), retry.maxDelayMs)
    /\ n <= 6 =>
         retry.delays[n] = <<1000, 2000, 4000, 8000, 10000, 10000>>[n]
    /\ retry.delays[n] <= retry.maxDelayMs
    /\ n > 1 => retry.delays[n - 1] <= retry.delays[n]

\* six failed calls have been slept after
C24_Witness == retry.pc = "call" /\ Len(retry.delays) = 6

\* the failure of a call that was not the last one has been classified
Classified ==
  /\ retry.pc \in {"sleep", "thrown"}
  /\ retry.error # 0
  /\ retry.calls < retry.maxAttempts

C30_RetryBudget ==
  /\ retry.pc # "idle" => retry.calls <= retry.maxAttempts
  /\ retry.pc \in {"returned", "thrown"} =>
       /\ retry.calls >= 1
       /\ Len(retry.delays) = retry.calls - 1
  /\ retry.pc \in {"call", "sleep"} => Len(retry.delays) = retry.calls
  /\ retry.pc = "sleep" =>
       /\ retry.calls < retry.maxAttempts
       /\ isRetryableError(Errors[retry.error])
  /\ retry.pc = "thrown" =>
       \/ retry.calls = retry.maxAttempts
       \/ ~isRetryableError(Errors[retry.error])

\* the third call failed and was the last one: two sleeps, three calls
C30_Witness ==
  /\ retry.pc = "thrown"
  /\ retry.maxAttempts = 3
  /\ retry.calls = 3
  /\ isRetryableError(Errors[retry.error])

\* -------------------------------------------------------- getQueueStats
Digits == <<"0", "1", "2", "3", "4", "5", "6", "7", "8", "9">>

DigitValue(c) == CHOOSE d \in 0..9 : Digits[d + 1] = c

\* COUNT(*) arrives as the decimal text of the number
RECURSIVE ToDecimal(_)
ToDecimal(n) ==
  IF n < 10 THEN <<Digits[n + 1]>>
  ELSE Append(ToDecimal(n \div 10), Digits[(n % 10) + 1])

\* (parseInt that stops after the first digit)
parseIntFirstDigit(str) == DigitValue(str[1])

\* parseInt(row_.count) of a run of decimal digits
RECURSIVE parseInt(_)
parseInt(str) ==
  IF Len(str) = 1 THEN DigitValue(str[1])
  ELSE (parseInt(SubSeq(str, 1, Len(str) - 1)) * 10)
         + DigitValue(str[Len(str)])

\* SELECT status, COUNT(*) as count FROM review_jobs GROUP BY status:
\* one row for each status that occurs in the table
GroupByStatus(table) ==
  {[status |-> st,
    count |-> ToDecimal(Cardinality({j \in DOMAIN table :
                                       table[j].status = st}))] :
     st \in {table[j].status : j \in DOMAIN table}}

\* const stats = { pending: 0, processing: 0, failed: 0 } and the loop over
\* the rows of the result
StatsOfRows(rows) ==
  LET CountOf(st) ==
        IF \E row \in rows : row.status = st
        THEN parseInt((CHOOSE row \in rows : row.status = st).count)
        ELSE 0
  IN [pending |-> CountOf("pending"),
      processing |-> CountOf("processing"),
      failed |-> CountOf("failed")]

\* getQueueStats of pipeline.ts sends the statement; reviewQueue is set by
\* startQueue while the module loads, before a request can be served, so
\* the branch for a missing queue is not taken
StatsQuery ==
  /\ stats.pc = "idle"
  /\ storeUp
  /\ stats' = [pc |-> "query", rows |-> GroupByStatus(jobs)]
  /\ UNCHANGED <<store, memory, claimed, faults, review, retry,
                 others>>

\* the result arrives and is folded into the three counts
StatsReturns ==
  /\ stats.pc = "query"
  /\ stats' = [pc |-> "returned", result |-> StatsOfRows(stats.rows)]
  /\ UNCHANGED <<store, memory, claimed, faults, review, retry,
                 others>>

\* the health endpoint has answered
StatsAnswered ==
  /\ stats.pc = "returned"
  /\ stats' = NoStats
  /\ UNCHANGED <<store, memory, claimed, faults, review, retry,
                 others>>

\* row j of a table, brought to status st by the queue's own updates
StatsRow(j, st) ==
  LET new == [tenant |-> ((j - 1) % NumTenants) + 1, commitSha |-> 1,
              status |-> "pending", attempts |-> 0,
              maxAttempts |-> DefaultMaxAttempts, createdAt |-> j,
              startedAt |-> Null, completedAt |-> Null,
              errorMessage |-> NoError, checkRunId |-> Null]
  IN CASE st = "pending" -> new
       [] st = "processing" -> ClaimedRow(new)
       [] st = "completed" -> CompletedRow(ClaimedRow(new))
       [] st = "failed" ->
            FailedRow(ClaimedRow(new),
                      [attempts |-> DefaultMaxAttempts - 1,
                       maxAttempts |-> DefaultMaxAttempts])

\* a table of a pending, b processing, c completed and d failed rows
StatsTable(a, b, c, d) ==
  [j \in 1..(a + b + c + d) |->
     StatsRow(j, IF j <= a THEN "pending"
                 ELSE IF j <= a + b THEN "processing"
                 ELSE IF j <= a + b + c THEN "completed"
                 ELSE "failed")]

\* the health endpoint is asked while the table holds up to MaxStatusRows
\* rows of a status
StatsInit ==
  /\ \E a, b, d \in 0..MaxStatusRows, c \in 0..1 :
       /\ jobs = StatsTable(a, b, c, d)
       /\ claimed = [j \in 1..(a + b + c + d) |-> 0]
  /\ locked = {}
  /\ storeUp = TRUE
  /\ pc = "boot"
  /\ running = 0
  /\ runningPerInstallation = NoEntries
  /\ pollInterval = FALSE
  /\ shuttingDown = FALSE
  /\ draining = FALSE
  /\ polls = EmptyBag
  /\ handlers = EmptyBag
  /\ lastRecovered = {}
  /\ recoveries = 0
  /\ faults = 0
  /\ review = NoReview
  /\ retry = NoRetry
  /\ stats = NoStats
  /\ submit = NoSubmit
  /\ asyncQueue = NoAsyncQueue
  /\ differ = NoDiffer

StatsNext == StatsQuery \/ StatsReturns \/ StatsAnswered

StatsSpec == StatsInit /\ [][StatsNext]_vars

\* number of rows of the table in status st
RowsIn(st) == Cardinality({j \in DOMAIN jobs : jobs[j].status = st})

\* C29: getQueueStats returns for pending, processing and failed the number
\* of rows in that status, 0 when there is none, and a call changes no row
\* and no in-flight counter.
C29_StatusCounts ==
  /\ [](stats.pc = "returned" =>
          stats.result = [pending |-> RowsIn("pending"),
                          processing |-> RowsIn("processing"),
                          failed |-> RowsIn("failed")])
  /\ [][stats' # stats =>
          UNCHANGED <<jobs, running, runningPerInstallation>>]_vars

\* ten pending rows, no processing row, one completed and one failed row
C29_Witness ==
  /\ stats.pc = "returned"
  /\ stats.result = [pending |-> 10, processing |-> 0, failed |-> 1]
  /\ RowsIn("completed") = 1

\* -------------------------------------------------------- processReview
\* One execution of processReview followed call by call, for a table of one
\* job.  review.created counts the check runs that exist on GitHub; the
\* other fields are the locals of the execution: checkRunId, whether the
\* review was posted (work), whether a check-run call or any other call
\* has failed, and the number of calls the last withRetry made.
RetryOptions == 3

\* processJob is executing the handler
ReviewRuns == \E h \in BagToSet(handlers) : h.pc = "handler"

\* (storing the handle with a statement that also restamps the row)
HandleRowRestamped(r, id) == [r EXCEPT !.checkRunId = id, !.createdAt = 0]

\* db.update(reviewJobs).set({ checkRunId })
HandleRow(r, id) == [r EXCEPT !.checkRunId = id]

\* if (checkRunId) await markCheck...(...): the update is sent to the check
\* run when the execution holds a handle; issued lists the phases sent to
\* it so far, starting with the creation as queued
Issued(r, phase) ==
  IF r.checkRunId # Null THEN Append(r.issued, phase) ELSE r.issued

\* processJob ran the handler to its end and made its write
ReviewCompleted == \E h \in BagToSet(handlers) : h.pc = "settle"

\* executions and calls are counted where the whole life of the job is
\* followed
Counted(n) == IF review.counted THEN n ELSE 0

\* poll dispatches the claimed job: processJob calls the handler, which
\* starts with withRetry(getOctokit)
ReviewDispatch(p) ==
  /\ review.pc = "idle"
  /\ SelectReturns(p)

ReviewBegins ==
  /\ review.pc = "idle"
  /\ ReviewRuns
  /\ review' = [pc |-> "octokit", created |-> review.created,
                counted |-> review.counted,
                executions |-> review.executions,
                octokitCalls |-> review.octokitCalls,
                checkRunId |-> Null, work |-> "running",
                statusFailed |-> FALSE, primaryFailed |-> FALSE,
                innerCalls |-> 0, octokitNow |-> 0, issued |-> <<>>]
  /\ retry' = RetryEntered(RetryOptions)
  /\ UNCHANGED <<store, memory, claimed, faults, stats,
                 others>>

\* failures followed inside an execution: one that isRetryableError
\* accepts (a rate limit) and one that it rejects (a 500 response)
ReviewErrors == {3, 7}

\* the calls and sleeps of withRetry inside the execution
ReviewRetryStep ==
  /\ ReviewRuns
  /\ review.pc \in {"octokit", "llm"}
  /\ \/ RetryCallReturns
     \/ \E e \in ReviewErrors : RetryCallThrows(e)
     \/ RetrySleepEnds

\* withRetry(getOctokit) returns, or throws outside any try block
ReviewOctokit ==
  /\ ReviewRuns
  /\ review.pc = "octokit"
  /\ retry.pc \in {"returned", "thrown"}
  /\ review' = IF retry.pc = "returned"
               THEN [review EXCEPT !.pc = "check",
                                   !.innerCalls = retry.calls,
                                   !.octokitNow = Counted(retry.calls)]
               ELSE [review EXCEPT !.pc = "rejected", !.work = "failed",
                                   !.primaryFailed = TRUE,
                                   !.innerCalls = retry.calls,
                                   !.octokitNow = Counted(retry.calls)]
  /\ retry' = NoRetry
  /\ UNCHANGED <<store, memory, claimed, faults, stats,
                 others>>

\* createCheckRun: a new check run and its id, or a logged failure
ReviewCreateCheckRun ==
  /\ ReviewRuns
  /\ review.pc = "check"
  /\ \/ review' = [review EXCEPT !.pc = "store",
                                  !.created = @ + 1,
                                  !.checkRunId = review.created + 1,
                                  !.issued = <<"queued">>]
     \/ review' = [review EXCEPT !.pc = "lookup", !.statusFailed = TRUE]
  /\ UNCHANGED <<store, memory, claimed, faults, retry, stats,
                 others>>

\* the update that stores the handle in the job row; a rejection is caught
\* and logged, the local checkRunId keeps its value
ReviewStoreHandle ==
  /\ ReviewRuns
  /\ review.pc = "store"
  /\ IF storeUp
     THEN /\ jobs' = [j \in JobIds |->
                       IF \E h \in BagToSet(handlers) :
                            h.pc = "handler" /\ h.job = j
                       THEN HandleRow(jobs[j], review.checkRunId)
                       ELSE jobs[j]]
          /\ review' = [review EXCEPT !.pc = "lookup"]
     ELSE /\ jobs' = jobs
          /\ review' = [review EXCEPT !.pc = "lookup",
                                      !.statusFailed = TRUE]
  /\ UNCHANGED <<locked, storeUp, memory, claimed, faults, retry, stats,
                 others>>

\* the selects of the installation and its settings: they reject outside
\* any try block, or the installation is missing, disabled or without a
\* key (the guarded markCheckFailed is called and processReview returns),
\* or the guarded markCheckInProgress is called
ReviewLookup ==
  /\ ReviewRuns
  /\ review.pc = "lookup"
  /\ IF ~storeUp
     THEN review' = [review EXCEPT !.pc = "rejected", !.work = "failed",
                                   !.primaryFailed = TRUE]
     ELSE \E configured, statusOk \in BOOLEAN :
            review' = [review EXCEPT
                         !.pc = IF configured THEN "insert" ELSE "resolved",
                         !.work = IF configured THEN @ ELSE "misconfigured",
                         !.issued =
                           Issued(review, IF configured THEN "in_progress"
                                          ELSE "failure"),
                         !.statusFailed =
                           @ \/ (review.checkRunId # Null /\ ~statusOk)]
  /\ UNCHANGED <<store, memory, claimed, faults, retry, stats,
                 others>>

\* the insert of the review row (outside the try block), then
\* fetchRepoConfig and fetchPRDiff inside it: the review is skipped, or
\* the chunks go to the provider through withRetry, or a fetch fails
ReviewInsertAndFetch ==
  /\ ReviewRuns
  /\ review.pc = "insert"
  /\ IF ~storeUp
     THEN /\ review' = [review EXCEPT !.pc = "rejected", !.work = "failed",
                                      !.primaryFailed = TRUE]
          /\ retry' = retry
     ELSE \/ /\ review' = [review EXCEPT !.pc = "record",
                                         !.work = "succeeded"]
             /\ retry' = retry
          \/ /\ review' = [review EXCEPT !.pc = "llm"]
             /\ retry' = RetryEntered(RetryOptions)
          \/ /\ review' = [review EXCEPT !.pc = "catch", !.work = "failed",
                                         !.primaryFailed = TRUE]
             /\ retry' = retry
  /\ UNCHANGED <<store, memory, claimed, faults, stats,
                 others>>

\* withRetry(provider.review) returns and postReviewToGitHub resolves or
\* rejects, or withRetry throws
ReviewProvider ==
  /\ ReviewRuns
  /\ review.pc = "llm"
  /\ retry.pc \in {"returned", "thrown"}
  /\ \E posted \in BOOLEAN :
       review' = IF retry.pc = "returned" /\ posted
                 THEN [review EXCEPT !.pc = "record", !.work = "succeeded",
                                     !.innerCalls = retry.calls]
                 ELSE [review EXCEPT !.pc = "catch", !.work = "failed",
                                     !.primaryFailed = TRUE,
                                     !.innerCalls = retry.calls]
  /\ retry' = NoRetry
  /\ UNCHANGED <<store, memory, claimed, faults, stats,
                 others>>

\* the update of the review row to completed, inside the try block
ReviewRecord ==
  /\ ReviewRuns
  /\ review.pc = "record"
  /\ review' = IF storeUp
               THEN [review EXCEPT !.pc = "success"]
               ELSE [review EXCEPT !.pc = "catch", !.primaryFailed = TRUE]
  /\ UNCHANGED <<store, memory, claimed, faults, retry, stats,
                 others>>

\* if (checkRunId) await markCheckSuccess(...), inside the try block
ReviewMarkSuccess ==
  /\ ReviewRuns
  /\ review.pc = "success"
  /\ \/ review' = [review EXCEPT !.pc = "resolved",
                                  !.issued = Issued(review, "success")]
     \/ /\ review.checkRunId # Null
        /\ review' = [review EXCEPT !.pc = "catch", !.statusFailed = TRUE,
                                    !.issued = Issued(review, "success")]
  /\ UNCHANGED <<store, memory, claimed, faults, retry, stats,
                 others>>

\* the catch block: the update of the review row to failed
ReviewCatch ==
  /\ ReviewRuns
  /\ review.pc = "catch"
  /\ review' = IF storeUp
               THEN [review EXCEPT !.pc = "markFailed"]
               ELSE [review EXCEPT !.pc = "rejected", !.primaryFailed = TRUE]
  /\ UNCHANGED <<store, memory, claimed, faults, retry, stats,
                 others>>

\* the catch block: if (checkRunId) await markCheckFailed(...)
ReviewMarkFailed ==
  /\ ReviewRuns
  /\ review.pc = "markFailed"
  /\ \/ review' = [review EXCEPT !.pc = "resolved",
                                  !.issued = Issued(review, "failure")]
     \/ /\ review.checkRunId # Null
        /\ review' = [review EXCEPT !.pc = "rejected",
                                    !.statusFailed = TRUE,
                                    !.issued = Issued(review, "failure")]
  /\ UNCHANGED <<store, memory, claimed, faults, retry, stats,
                 others>>

\* the record processJob leaves for .finally carries the outcome of the
\* execution that was followed
SettlesAs(work) ==
  \E g \in BagToSet(handlers') : g.pc = "settle" /\ g.work = work

\* await this.handler(...) resolved: the completion write
ReviewCompleteWrite(h) ==
  /\ review.pc = "resolved"
  /\ CompleteWrite(h)
  /\ SettlesAs(review.work)

ReviewCompleteRejects(h) ==
  /\ review.pc = "resolved"
  /\ CompleteRejects(h)
  /\ \E g \in BagToSet(handlers') : g.pc = "catch" /\ g.work = review.work

\* the handler or the completion write rejected: the failure write
ReviewFailWrite(h) ==
  /\ h.pc = "handler" => review.pc = "rejected"
  /\ FailWrite(h)
  /\ SettlesAs(review.work)

ReviewFailRejects(h) ==
  /\ h.pc = "handler" => review.pc = "rejected"
  /\ FailRejects(h)
  /\ SettlesAs(review.work)

\* .finally runs once the execution has been counted
ReviewSettle(h) ==
  /\ review.pc = "idle"
  /\ Settle(h)

\* the execution is over, or the process that ran it is gone; an
\* execution that ran to its end is counted with its calls of getOctokit
ReviewEnds ==
  /\ review.pc # "idle"
  /\ ~\E h \in BagToSet(handlers) : h.pc \in {"handler", "catch"}
  /\ review' = [pc |-> "idle", created |-> review.created,
                counted |-> review.counted,
                executions |-> review.executions +
                               (IF ReviewCompleted THEN Counted(1) ELSE 0),
                octokitCalls |-> review.octokitCalls +
                                 (IF ReviewCompleted THEN review.octokitNow
                                  ELSE 0)]
  /\ retry' = NoRetry
  /\ UNCHANGED <<store, memory, claimed, faults, stats,
                 others>>

\* one job has been enqueued and the process starts
ReviewStarts(counted) ==
  /\ jobs = <<BacklogRow(1)>>
  /\ locked = {}
  /\ storeUp = TRUE
  /\ pc = "boot"
  /\ running = 0
  /\ runningPerInstallation = NoEntries
  /\ pollInterval = FALSE
  /\ shuttingDown = FALSE
  /\ draining = FALSE
  /\ polls = EmptyBag
  /\ handlers = EmptyBag
  /\ lastRecovered = {}
  /\ recoveries = 0
  /\ claimed = <<0>>
  /\ faults = 0
  /\ review = [pc |-> "idle", created |-> 0, counted |-> counted,
               executions |-> 0, octokitCalls |-> 0]
  /\ retry = NoRetry
  /\ stats = NoStats
  /\ submit = NoSubmit
  /\ asyncQueue = NoAsyncQueue
  /\ differ = NoDiffer

ReviewInit == ReviewStarts(FALSE)

LifetimeInit == ReviewStarts(TRUE)

\* every step of the process and of the store other than a crash
LifetimeNext ==
  \/ RecoverStaleJobs
  \/ RecoverRejects
  \/ Start
  \/ PollTick
  \/ \E p \in BagToSet(polls) : ClaimSelect(p)
  \/ \E p \in BagToSet(polls) : ClaimNone(p)
  \/ \E p \in BagToSet(polls) : ClaimUpdate(p)
  \/ \E p \in BagToSet(polls) : ClaimRejects(p)
  \/ \E p \in BagToSet(polls) : ReviewDispatch(p)
  \/ \E p \in BagToSet(polls) : SelectRejects(p)
  \/ ReviewBegins
  \/ ReviewRetryStep
  \/ ReviewOctokit
  \/ ReviewCreateCheckRun
  \/ ReviewStoreHandle
  \/ ReviewLookup
  \/ ReviewInsertAndFetch
  \/ ReviewProvider
  \/ ReviewRecord
  \/ ReviewMarkSuccess
  \/ ReviewCatch
  \/ ReviewMarkFailed
  \/ \E h \in BagToSet(handlers) : ReviewCompleteWrite(h)
  \/ \E h \in BagToSet(handlers) : ReviewCompleteRejects(h)
  \/ \E h \in BagToSet(handlers) : ReviewFailWrite(h)
  \/ \E h \in BagToSet(handlers) : ReviewFailRejects(h)
  \/ \E h \in BagToSet(handlers) : ReviewSettle(h)
  \/ ReviewEnds
  \/ Stop
  \/ Exit
  \/ Restart
  \/ StoreFails
  \/ StoreReturns
  \/ WindowPasses

ReviewNext ==
  \/ LifetimeNext
  \/ Crash

ReviewSpec == ReviewInit /\ [][ReviewNext]_vars

\* the life of one job in a process that is never killed
LifetimeSpec == LifetimeInit /\ [][LifetimeNext]_vars

\* C22: an execution in which no call other than a check-run call failed
\* is never followed by the failure write (requeue or failed, attempts + 1).
C22_SecondaryNeverDecides ==
  [][\A h \in BagToSet(handlers) :
       (/\ h.pc = "handler"
        /\ review.pc \in {"resolved", "rejected"}
        /\ ~review.primaryFailed) => ~FailWrite(h)]_vars

\* C26: a step of withRetry changes no job row; attempts changes only in
\* the failure write of processJob, by exactly one.
C26_RetryLayersIndependent ==
  [][/\ retry' # retry => jobs' = jobs
     /\ \A j \in JobIds :
          jobs'[j].attempts # jobs[j].attempts =>
            /\ jobs'[j].attempts = jobs[j].attempts + 1
            /\ \E h \in BagToSet(handlers) : h.job = j /\ FailWrite(h)]_vars

\* withRetry made three calls in the first execution, which was then
\* written as failed: attempts is 1
C26_Witness ==
  /\ review.pc = "rejected"
  /\ review.innerCalls = RetryOptions
  /\ jobs[1].attempts = 1
  /\ \E h \in BagToSet(handlers) : h.pc = "settle" /\ h.attempts = 0

\* C27: once a row holds a check-run id, no step replaces it and no
\* further check run is created.
C27_HandleSetOnce ==
  [][\A j \in JobIds :
       jobs[j].checkRunId # Null =>
         /\ jobs'[j].checkRunId = jobs[j].checkRunId
         /\ review'.created = review.created]_vars

\* C28: no step changes the tenant, the commit, the creation time or
\* max_attempts of a row.
C28_DescriptorImmutable ==
  [][\A j \in JobIds :
       /\ jobs'[j].tenant = jobs[j].tenant
       /\ jobs'[j].commitSha = jobs[j].commitSha
       /\ jobs'[j].createdAt = jobs[j].createdAt
       /\ jobs'[j].maxAttempts = jobs[j].maxAttempts]_vars

\* the job was claimed, failed and requeued, claimed again, recovered after
\* a crash, given a check-run id and completed
C28_Witness ==
  /\ lastRecovered = {1}
  /\ jobs[1].status = "completed"
  /\ jobs[1].attempts >= 1
  /\ jobs[1].checkRunId # Null

\* C31: in-flight counter consistency.  running is never negative, equals
\* the sum of the per-installation counts and the number of processJob
\* invocations that have not settled, and each per-installation count
\* equals the number of such invocations of that installation; so it is
\* zero when none is left, whatever the outcome of the invocation was.
C31_CounterConsistency ==
  /\ running \in Nat
  /\ running = BagCardinality(handlers)
  /\ \A t \in Tenants :
       runningPerInstallation[t] =
         Count(handlers, {h \in BagToSet(handlers) : h.tenant = t})
  /\ running =
       Count(handlers, {h \in BagToSet(handlers) : h.tenant \in Tenants})

\* two jobs are in flight and the failure write of one has thrown
C31_Witness ==
  /\ running = 2
  /\ \E h \in BagToSet(handlers) : h.pc = "settle" /\ h.rejected

\* ------------------------------------------ enqueueReview with the guard
\* enqueueReview as section 4.3 of the security sprint writes it: a select
\* for an outstanding job, a select for a recently completed one, then the
\* insert, each awaited on its own.  A delivery is a record of the bag
\* submit: its tuple, its position, the number of rows the table held when
\* its first select ran, and the row it inserted (0 for none).
GuardDelivered(t, sha) ==
  /\ BagCardinality(submit) < MaxSubmits
  /\ storeUp
  /\ submit' = BagAdd(submit,
       [tenant |-> t, sha |-> sha, seen |-> Len(jobs), row |-> 0,
        pc |-> IF Outstanding(t, sha) THEN "skipped" ELSE "recent"])
  /\ UNCHANGED <<store, memory, claimed, faults, review, retry, stats,
                 asyncQueue, differ>>

\* the second select: a job of the tuple completed in the last 5 minutes
GuardCheckRecent(s) ==
  /\ s.pc = "recent"
  /\ storeUp
  /\ submit' = BagAdd(BagDel(submit, s),
       [s EXCEPT !.pc = IF RecentlyCompleted(s.tenant, s.sha)
                        THEN "skipped" ELSE "insert"])
  /\ UNCHANGED <<store, memory, claimed, faults, review, retry, stats,
                 asyncQueue, differ>>

\* reviewQueue.enqueue(job): the insert
GuardInsert(s) ==
  /\ s.pc = "insert"
  /\ storeUp
  /\ Len(jobs) < MaxJobs
  /\ jobs' = Append(jobs, NewRow(s.tenant, s.sha))
  /\ claimed' = Append(claimed, 0)
  /\ submit' = BagAdd(BagDel(submit, s),
       [s EXCEPT !.pc = "done", !.row = Len(jobs) + 1])
  /\ UNCHANGED <<locked, storeUp, memory, faults, review, retry, stats,
                 asyncQueue, differ>>

\* deliveries arrive at a table that is empty or holds one completed job
GuardInit ==
  /\ \/ jobs = <<>> /\ claimed = <<>>
     \/ /\ jobs = <<CompletedRow(ClaimedRow(BacklogRow(1)))>>
        /\ claimed = <<0>>
  /\ locked = {}
  /\ storeUp = TRUE
  /\ pc = "boot"
  /\ running = 0
  /\ runningPerInstallation = NoEntries
  /\ pollInterval = FALSE
  /\ shuttingDown = FALSE
  /\ draining = FALSE
  /\ polls = EmptyBag
  /\ handlers = EmptyBag
  /\ lastRecovered = {}
  /\ recoveries = 0
  /\ faults = 0
  /\ review = NoReview
  /\ retry = NoRetry
  /\ stats = NoStats
  /\ submit = NoSubmit
  /\ asyncQueue = NoAsyncQueue
  /\ differ = NoDiffer

GuardNext ==
  \/ \E t \in Tenants, sha \in Revisions : GuardDelivered(t, sha)
  \/ \E s \in BagToSet(submit) : GuardCheckRecent(s)
  \/ \E s \in BagToSet(submit) : GuardInsert(s)
  \/ WindowPasses

GuardSpec == GuardInit /\ [][GuardNext]_vars

C33_PhasesMoveForward ==
  review.pc # "idle" =>
    \A i \in 1..Len(review.issued) :
      /\ review.issued[i] = "queued" <=> i = 1
      /\ review.issued[i] \in {"success", "failure"} =>
           i = Len(review.issued)

\* C34: no orphaned active job while the process lives.  Once recovery has
\* run in this process, every processing job is held by a tick that is
\* about to dispatch it or by a processJob invocation that is counted in
\* running.
C34_NoOrphanedActiveJob ==
  pc \in {"recovered", "up"} =>
    \A j \in JobIds :
      jobs[j].status = "processing" =>
        \/ \E p \in BagToSet(polls) : p.pc = "select" /\ p.job = j
        \/ /\ \E h \in BagToSet(handlers) : h.job = j
           /\ running > 0

\* C35: recovery frame.  recoverStaleJobs changes only status and
\* started_at of the rows that were processing; attempts, error message,
\* check-run id, completion time and descriptor of every row stay as they
\* were, and rows in any other status are untouched.  An execution cut
\* short by a crash therefore costs no attempt.
C35_RecoveryFrame ==
  [][(pc = "boot" /\ pc' = "recovered") =>
       \A j \in JobIds :
         /\ jobs'[j].attempts = jobs[j].attempts
         /\ jobs'[j].errorMessage = jobs[j].errorMessage
         /\ jobs'[j].checkRunId = jobs[j].checkRunId
         /\ jobs'[j].completedAt = jobs[j].completedAt
         /\ jobs'[j].tenant = jobs[j].tenant
         /\ jobs'[j].commitSha = jobs[j].commitSha
         /\ jobs'[j].createdAt = jobs[j].createdAt
         /\ jobs'[j].maxAttempts = jobs[j].maxAttempts
         /\ jobs[j].status # "processing" => jobs'[j] = jobs[j]]_vars

\* the job failed twice, was claimed a third time, cut short by a crash
\* and recovered, and is now executed a fourth time with attempts = 2
C35_Witness ==
  /\ pc = "up"
  /\ lastRecovered = {1}
  /\ jobs[1].status = "processing"
  /\ jobs[1].attempts = DefaultMaxAttempts - 1
  /\ jobs[1].checkRunId # Null
  /\ ReviewRuns

\* job k was returned to pending by a failure write and may be claimed
Requeued(k, exclude) ==
  /\ Eligible(k, exclude)
  /\ jobs[k].attempts >= 1

\* C36 as stated: the failure write keeps the creation time, and whenever
\* a claim selects a job, no requeued job whose tenant is not excluded has
\* an earlier creation time.
C36_RequeuedFirst ==
  [][/\ \A h \in BagToSet(handlers) :
          FailWrite(h) => jobs'[h.job].createdAt = jobs[h.job].createdAt
     /\ \A p \in BagToSet(polls) : \A j \in JobIds :
          (ClaimSelect(p) /\ j \in locked' \ locked) =>
            \A k \in JobIds :
              Requeued(k, p.exclude) =>
                jobs[k].createdAt >= jobs[j].createdAt]_vars

\* C36 as amended: the same for the requeued jobs that are not locked by a
\* concurrent claim.
C36_RequeuedFirstAmongVisible ==
  [][/\ \A h \in BagToSet(handlers) :
          FailWrite(h) => jobs'[h.job].createdAt = jobs[h.job].createdAt
     /\ \A p \in BagToSet(polls) : \A j \in JobIds :
          (ClaimSelect(p) /\ j \in locked' \ locked) =>
            \A k \in JobIds :
              (Requeued(k, p.exclude) /\ k \notin locked) =>
                jobs[k].createdAt >= jobs[j].createdAt]_vars

\* a claim holds a requeued job while a job created later is eligible for
\* it and visible
C36_Witness ==
  \E p \in BagToSet(polls) :
    /\ p.pc = "locked"
    /\ jobs[p.job].attempts >= 1
    /\ \E k \in JobIds :
         /\ Eligible(k, p.exclude)
         /\ k \notin locked
         /\ jobs[k].createdAt > jobs[p.job].createdAt

\* C37: in a process that is never killed, over the whole life of a job
\* getOctokit, which withRetry wraps with maxAttempts 3, is invoked at most
\* 3 * max_attempts times and the handler executes the job at most
\* max_attempts times
C37_CombinedRetryBound ==
  /\ review.executions <= jobs[1].maxAttempts
  /\ review.octokitCalls <= RetryOptions * jobs[1].maxAttempts

\* ------------------------------------------------- the webhook handler
\* POST /webhooks/github and enqueueReview as pipeline.ts has it: a
\* synchronous function that starts the insert and attaches a .catch to
\* it.  submit is here a record: queue tells whether startQueue has
\* assigned reviewQueue, calls is the bag of deliveries with what happened
\* to each of them.
EventKinds == {"unsigned", "other", "pull_request"}

\* startQueue: reviewQueue = new PersistentQueue(processReview, 3)
WebhookStartQueue ==
  /\ ~submit.queue
  /\ submit' = [submit EXCEPT !.queue = TRUE]
  /\ UNCHANGED <<store, memory, claimed, faults, review, retry, stats,
                 asyncQueue, differ>>

\* enqueueReview up to its return: without a queue it logs and returns,
\* otherwise the insert of PersistentQueue.enqueue is on its way
enqueueReview(call) ==
  IF ~submit.queue
  THEN [call EXCEPT !.logged = "Queue not started"]
  ELSE [call EXCEPT !.insert = "inflight"]

\* the handler up to its first await: a bad signature is answered 401,
\* an event that is not a pull-request event is ignored, a pull-request
\* event is handed to enqueueReview
WebhookDelivered(kind, t, sha) ==
  /\ BagCardinality(submit.calls) < MaxSubmits
  /\ LET call == [kind |-> kind, tenant |-> t, sha |-> sha,
                  existed |-> Outstanding(t, sha), insert |-> "none",
                  row |-> 0, logged |-> "", threw |-> FALSE,
                  answer |-> "none"]
     IN submit' = [submit EXCEPT !.calls = BagAdd(@,
          CASE kind = "unsigned" ->
                 [call EXCEPT !.answer = "Invalid signature"]
            [] kind = "other" -> [call EXCEPT !.answer = "ignored"]
            [] OTHER -> enqueueReview(call))]
  /\ UNCHANGED <<store, memory, claimed, faults, review, retry, stats,
                 asyncQueue, differ>>

\* await enqueueReview(...) resumes, whatever the insert does: the handler
\* logs "Review queued" and answers
WebhookAnswers(s) ==
  /\ s.kind = "pull_request"
  /\ s.answer = "none"
  /\ submit' = [submit EXCEPT !.calls =
       BagAdd(BagDel(@, s), [s EXCEPT !.answer = "queued"])]
  /\ UNCHANGED <<store, memory, claimed, faults, review, retry, stats,
                 asyncQueue, differ>>

\* the insert of PersistentQueue.enqueue returns the new row
WebhookInsertReturns(s) ==
  /\ s.insert = "inflight"
  /\ storeUp
  /\ Len(jobs) < MaxJobs
  /\ jobs' = Append(jobs, NewRow(s.tenant, s.sha))
  /\ claimed' = Append(claimed, 0)
  /\ submit' = [submit EXCEPT !.calls =
       BagAdd(BagDel(@, s),
              [s EXCEPT !.insert = "inserted", !.row = Len(jobs) + 1])]
  /\ UNCHANGED <<locked, storeUp, memory, faults, review, retry, stats,
                 asyncQueue, differ>>

\* the insert rejects: the .catch of enqueueReview logs the error
WebhookInsertRejects(s) ==
  /\ s.insert = "inflight"
  /\ ~storeUp
  /\ submit' = [submit EXCEPT !.calls =
       BagAdd(BagDel(@, s),
              [s EXCEPT !.insert = "rejected",
                        !.logged = "Failed to enqueue review"])]
  /\ UNCHANGED <<store, memory, claimed, faults, review, retry, stats,
                 asyncQueue, differ>>

\* the module has been loaded, the table is empty
WebhookInit ==
  /\ jobs = <<>>
  /\ claimed = <<>>
  /\ locked = {}
  /\ storeUp = TRUE
  /\ pc = "boot"
  /\ running = 0
  /\ runningPerInstallation = NoEntries
  /\ pollInterval = FALSE
  /\ shuttingDown = FALSE
  /\ draining = FALSE
  /\ polls = EmptyBag
  /\ handlers = EmptyBag
  /\ lastRecovered = {}
  /\ recoveries = 0
  /\ faults = 0
  /\ review = NoReview
  /\ retry = NoRetry
  /\ stats = NoStats
  /\ submit = [queue |-> FALSE, calls |-> EmptyBag]
  /\ asyncQueue = NoAsyncQueue
  /\ differ = NoDiffer

WebhookNext ==
  \/ WebhookStartQueue
  \/ \E kind \in EventKinds, t \in Tenants, sha \in Revisions :
       WebhookDelivered(kind, t, sha)
  \/ \E s \in BagToSet(submit.calls) : WebhookAnswers(s)
  \/ \E s \in BagToSet(submit.calls) : WebhookInsertReturns(s)
  \/ \E s \in BagToSet(submit.calls) : WebhookInsertRejects(s)
  \/ StoreFails
  \/ StoreReturns

WebhookSpec == WebhookInit /\ [][WebhookNext]_vars

\* C38: the submission outcome is reported faithfully.  Once a delivery of
\* a pull-request event has been answered "queued" and its insert is no
\* longer on its way, it has a job row or a job of its tuple was
\* outstanding when it arrived; and when the queue was not started or the
\* insert failed, there is no row, enqueueReview did not throw, and the
\* answer does not say that the job was dropped.
C38_ReportedFaithfully ==
  \A s \in BagToSet(submit.calls) :
    /\ (s.answer = "queued" /\ s.insert # "inflight") =>
         (s.row # 0 \/ s.existed)
    /\ (s.logged # "") =>
         /\ s.row = 0
         /\ ~s.threw
         /\ s.answer \in {"none", "queued"}

\* ---------------------------------------------------------- AsyncQueue
\* The in-memory queue of queue.ts: jobs are numbered in the order of the
\* enqueue calls.  asyncQueue holds the fields of the object (queue,
\* running, concurrency), the handlers that are awaited, the order in which
\* handlers were started, and for each job the outcome of its handler, the
\* state of its promise and the number of resolve / reject calls on it.
MaxAsyncJobs == 4
MaxAsyncConcurrency == 2
AsyncJobs == 1..MaxAsyncJobs

\* (the loop head without the test of running against concurrency)
AsyncProcessUnbounded(q) ==
  IF q.queue # <<>>
  THEN [q EXCEPT !.queue = Tail(@), !.running = @ + 1,
                 !.handlers = @ \cup {Head(q.queue)},
                 !.started = Append(@, Head(q.queue))]
  ELSE q

\* process() up to its await: while there is room and a job waits, the
\* first job is shifted, running is incremented and the handler is called,
\* on which the invocation is suspended; otherwise the invocation returns
AsyncProcess(q) ==
  IF q.running < q.concurrency /\ q.queue # <<>>
  THEN [q EXCEPT !.queue = Tail(@), !.running = @ + 1,
                 !.handlers = @ \cup {Head(q.queue)},
                 !.started = Append(@, Head(q.queue))]
  ELSE q

\* enqueue(data): the job is pushed and process() is called
AsyncEnqueue ==
  /\ asyncQueue.next < MaxAsyncJobs
  /\ asyncQueue' = AsyncProcess(
       [asyncQueue EXCEPT !.next = @ + 1,
                          !.queue = Append(@, asyncQueue.next + 1)])
  /\ UNCHANGED <<store, memory, claimed, faults, review, retry, stats,
                 submit, differ>>

\* the handler of job j resolves (ok) or rejects: the suspended process()
\* settles the promise of the job, decrements running and calls process()
\* in its finally block, then returns to its own loop head
AsyncHandlerEnds(j, ok) ==
  /\ j \in asyncQueue.handlers
  /\ asyncQueue' = AsyncProcess(AsyncProcess(
       [asyncQueue EXCEPT
          !.handlers = @ \ {j},
          !.outcome[j] = IF ok THEN "succeeded" ELSE "failed",
          !.promise[j] = IF @ # "pending" THEN @
                         ELSE IF ok THEN "resolved" ELSE "rejected",
          !.settles[j] = @ + 1,
          !.running = @ - 1]))
  /\ UNCHANGED <<store, memory, claimed, faults, review, retry, stats,
                 submit, differ>>

\* new AsyncQueue(handler, concurrency) with a positive concurrency
AsyncInit ==
  /\ jobs = <<>>
  /\ claimed = <<>>
  /\ locked = {}
  /\ storeUp = TRUE
  /\ pc = "boot"
  /\ running = 0
  /\ runningPerInstallation = NoEntries
  /\ pollInterval = FALSE
  /\ shuttingDown = FALSE
  /\ draining = FALSE
  /\ polls = EmptyBag
  /\ handlers = EmptyBag
  /\ lastRecovered = {}
  /\ recoveries = 0
  /\ faults = 0
  /\ review = NoReview
  /\ retry = NoRetry
  /\ stats = NoStats
  /\ submit = NoSubmit
  /\ \E c \in 1..MaxAsyncConcurrency :
       asyncQueue = [concurrency |-> c, queue |-> <<>>, running |-> 0,
                     handlers |-> {}, started |-> <<>>, next |-> 0,
                     outcome |-> [j \in AsyncJobs |-> "none"],
                     promise |-> [j \in AsyncJobs |-> "pending"],
                     settles |-> [j \in AsyncJobs |-> 0]]
  /\ differ = NoDiffer

AsyncNext ==
  \/ AsyncEnqueue
  \/ \E j \in AsyncJobs, ok \in BOOLEAN : AsyncHandlerEnds(j, ok)

AsyncSpec == AsyncInit /\ [][AsyncNext]_vars

\* every handler terminates
AsyncFairSpec ==
  AsyncSpec /\ \A j \in AsyncJobs :
                 WF_vars(\E ok \in BOOLEAN : AsyncHandlerEnds(j, ok))

\* C39: AsyncQueue.  At no time do more handlers run than the configured
\* concurrency; handlers are started in the order of the enqueue calls; no
\* promise is settled more than once, and a settled promise is resolved
\* when the handler succeeded and rejected when it failed; and, every
\* handler terminating, every enqueued job is eventually started and its
\* promise settled.
C39_AsyncQueue ==
  /\ [](/\ asyncQueue.running <= asyncQueue.concurrency
        /\ asyncQueue.running = Cardinality(asyncQueue.handlers)
        /\ \A i \in 1..Len(asyncQueue.started) : asyncQueue.started[i] = i
        /\ \A j \in AsyncJobs :
             /\ asyncQueue.settles[j] <= 1
             /\ asyncQueue.promise[j] = "resolved" <=>
                  asyncQueue.outcome[j] = "succeeded"
             /\ asyncQueue.promise[j] = "rejected" <=>
                  asyncQueue.outcome[j] = "failed")
  /\ \A j \in AsyncJobs :
       (asyncQueue.next >= j) ~>
         (/\ j <= Len(asyncQueue.started)
          /\ asyncQueue.settles[j] = 1
          /\ asyncQueue.promise[j] # "pending")

\* the queue is full and a job waits behind the running handlers, after
\* one handler succeeded, one failed and a waiting job took a freed place
C39_Witness ==
  /\ asyncQueue.running = asyncQueue.concurrency
  /\ asyncQueue.queue = <<MaxAsyncJobs>>
  /\ Len(asyncQueue.started) = MaxAsyncJobs - 1
  /\ \E j \in AsyncJobs : asyncQueue.promise[j] = "rejected"
  /\ \E j \in AsyncJobs : asyncQueue.promise[j] = "resolved"

\* ---------------------------------------------------------- chunkDiffs
\* differ.ts: strings are tuples of characters.  differ holds one call of
\* chunkDiffs: the list of file diffs, the limit and the returned chunks.
MaxFiles == 3
MaxChunkChars == 64
Paths == {<<"a">>, <<"b">>}
Hunks == {<<"@">>,
          <<"@", "@", " ", "-", "1", " ", "+", "1", " ", "@", "@", "\n",
            "+">>}
FileDiffs == [path : Paths, hunks : Hunks]

\* `### ${file.path}\n${file.hunks}\n\n`
FileBlock(file) ==
  <<"#", "#", "#", " ">> \o file.path \o <<"\n">> \o file.hunks \o
  <<"\n", "\n">>

\* (the test of the loop without `&& current`)
OverflowsEmpty(current, fileBlock, maxCharsPerChunk) ==
  Len(current) + Len(fileBlock) > maxCharsPerChunk

\* current.length + fileBlock.length > maxCharsPerChunk && current
Overflows(current, fileBlock, maxCharsPerChunk) ==
  /\ Len(current) + Len(fileBlock) > maxCharsPerChunk
  /\ current # <<>>

\* the for loop of chunkDiffs from file i on, and the push that follows it
RECURSIVE ChunkLoop(_, _, _, _, _)
ChunkLoop(files, i, chunks, current, maxCharsPerChunk) ==
  IF i > Len(files)
  THEN IF current # <<>> THEN Append(chunks, current) ELSE chunks
  ELSE LET fileBlock == FileBlock(files[i])
       IN IF Overflows(current, fileBlock, maxCharsPerChunk)
          THEN ChunkLoop(files, i + 1, Append(chunks, current), fileBlock,
                         maxCharsPerChunk)
          ELSE ChunkLoop(files, i + 1, chunks, current \o fileBlock,
                         maxCharsPerChunk)

chunkDiffs(files, maxCharsPerChunk) ==
  ChunkLoop(files, 1, <<>>, <<>>, maxCharsPerChunk)

\* the strings of a list joined in order
RECURSIVE Joined(_)
Joined(strings) ==
  IF strings = <<>> THEN <<>> ELSE Head(strings) \o Joined(Tail(strings))

FileLists == UNION {[1..n -> FileDiffs] : n \in 0..MaxFiles}

\* chunkDiffs is called with a list of files and a positive limit
DifferInit ==
  /\ jobs = <<>>
  /\ claimed = <<>>
  /\ locked = {}
  /\ storeUp = TRUE
  /\ pc = "boot"
  /\ running = 0
  /\ runningPerInstallation = NoEntries
  /\ pollInterval = FALSE
  /\ shuttingDown = FALSE
  /\ draining = FALSE
  /\ polls = EmptyBag
  /\ handlers = EmptyBag
  /\ lastRecovered = {}
  /\ recoveries = 0
  /\ faults = 0
  /\ review = NoReview
  /\ retry = NoRetry
  /\ stats = NoStats
  /\ submit = NoSubmit
  /\ asyncQueue = NoAsyncQueue
  /\ \E files \in FileLists, maxCharsPerChunk \in 1..MaxChunkChars :
       differ = [pc |-> "called", files |-> files,
                 maxCharsPerChunk |-> maxCharsPerChunk, chunks |-> <<>>]

ChunkDiffsReturns ==
  /\ differ.pc = "called"
  /\ differ' = [differ EXCEPT
                  !.pc = "returned",
                  !.chunks = chunkDiffs(differ.files,
                                        differ.maxCharsPerChunk)]
  /\ UNCHANGED <<store, memory, claimed, faults, review, retry, stats,
                 submit, asyncQueue>>

DifferNext == ChunkDiffsReturns

DifferSpec == DifferInit /\ [][DifferNext]_vars

FileBlocks == [i \in 1..Len(differ.files) |-> FileBlock(differ.files[i])]

\* nothing is lost or reordered, no chunk is empty, and a chunk longer than
\* the limit is one file block
ChunksKeepBlocks ==
  /\ Joined(differ.chunks) = Joined(FileBlocks)
  /\ \A c \in 1..Len(differ.chunks) :
       /\ differ.chunks[c] # <<>>
       /\ Len(differ.chunks[c]) > differ.maxCharsPerChunk =>
            \E i \in 1..Len(FileBlocks) : differ.chunks[c] = FileBlocks[i]

\* C40 as stated: chunkDiffs loses and reorders nothing, returns no empty
\* chunk, and a chunk longer than the limit is exactly one file block;
\* files whose blocks together fit the limit yield one chunk, and files
\* that do not fit together yield more than one.
C40_ChunkDiffs ==
  differ.pc = "returned" =>
    /\ ChunksKeepBlocks
    /\ IF Len(Joined(FileBlocks)) <= differ.maxCharsPerChunk
       THEN Len(differ.chunks) = 1
       ELSE Len(differ.chunks) > 1

\* C40 amended: chunkDiffs loses and reorders nothing, returns no empty
\* chunk, and a chunk longer than the limit is exactly one file block; a
\* non-empty list of files whose blocks together fit the limit yields one
\* chunk, and two or more files that do not fit together yield more than
\* one.
C40_ChunkDiffsByFileCount ==
  differ.pc = "returned" =>
    /\ ChunksKeepBlocks
    /\ (/\ Len(differ.files) >= 1
        /\ Len(Joined(FileBlocks)) <= differ.maxCharsPerChunk) =>
         Len(differ.chunks) = 1
    /\ (/\ Len(differ.files) >= 2
        /\ Len(Joined(FileBlocks)) > differ.maxCharsPerChunk) =>
         Len(differ.chunks) > 1

\* three files came back as two chunks: the first two fit the limit
\* together, the third is longer than the limit and is a chunk of its own
C40_Witness ==
  /\ differ.pc = "returned"
  /\ Len(differ.files) = 3
  /\ Len(differ.chunks) = 2
  /\ differ.chunks[1] = FileBlocks[1] \o FileBlocks[2]
  /\ differ.chunks[2] = FileBlocks[3]
  /\ Len(differ.chunks[2]) > differ.maxCharsPerChunk

=============================================================================
